---- MODULE Spec2Model ----
(***************************************************************************)
(* Verification model of the Strumind structural analysis kernel:          *)
(* backend/solver/matrix_assembler.py, backend/solver/linear_solver.py,    *)
(* backend/solver/modal_analyzer.py, backend/solver/analysis_engine.py and *)
(* backend/core/geometry.py.                                               *)
(*                                                                         *)
(* Python floats are modelled as exact real numbers.  A number is a triple *)
(* <<n, d, e>> standing for (n / d) * 10^e, kept in a canonical form, so   *)
(* that the decimal constants of the code (1e12, 1e6, 1000, 1e-12, 0.99)   *)
(* are represented exactly and equal values are equal triples.             *)
(***************************************************************************)
EXTENDS Integers, Sequences, FiniteSets, TLC

VARIABLES model, matrix_assembler, linear_solver, modal_analyzer, analysis_results,
          run_result, calls

vars ==
    <<model, matrix_assembler, linear_solver, modal_analyzer, analysis_results,
      run_result, calls>>

\* Python None; it differs from every number, vector, matrix and record
None == <<>>

(***************************************************************************)
(* Exact decimal-rational arithmetic (the model of Python float).          *)
(***************************************************************************)
Abs(x) == IF x < 0 THEN -x ELSE x

RECURSIVE Gcd(_, _)
Gcd(a, b) == IF b = 0 THEN a ELSE Gcd(b, a % b)

RECURSIVE Strip(_, _, _)
Strip(n, d, e) ==
    IF d % 2 = 0 THEN Strip(n * 5, d \div 2, e - 1)
    ELSE IF d % 5 = 0 THEN Strip(n * 2, d \div 5, e - 1)
    ELSE IF n % 10 = 0 THEN Strip(n \div 10, d, e + 1)
    ELSE <<n, d, e>>

\* canonical form of (n / d) * 10^e, d # 0
Num(n, d, e) ==
    IF n = 0 THEN <<0, 1, 0>>
    ELSE LET s == IF d < 0 THEN -1 ELSE 1
             g == Gcd(Abs(n), Abs(d))
         IN  Strip((s * n) \div g, (s * d) \div g, e)

Zero == <<0, 1, 0>>
One == <<1, 1, 0>>
FromInt(k) == Num(k, 1, 0)
IsZero(a) == a[1] = 0
Sign(a) == IF a[1] > 0 THEN 1 ELSE IF a[1] < 0 THEN -1 ELSE 0
Neg(a) == <<-a[1], a[2], a[3]>>
NAbs(a) == <<Abs(a[1]), a[2], a[3]>>

Mul(a, b) ==
    IF IsZero(a) \/ IsZero(b) THEN Zero
    ELSE LET g1 == Gcd(Abs(a[1]), b[2])
             g2 == Gcd(Abs(b[1]), a[2])
         IN  Num((a[1] \div g1) * (b[1] \div g2),
                 (a[2] \div g2) * (b[2] \div g1), a[3] + b[3])

\* a / b, b # 0
Div(a, b) ==
    IF IsZero(a) THEN Zero
    ELSE Mul(a, IF b[1] < 0 THEN <<-b[2], -b[1], -b[3]>>
                            ELSE <<b[2], b[1], -b[3]>>)

Add(a, b) ==
    IF IsZero(a) THEN b
    ELSE IF IsZero(b) THEN a
    ELSE LET m == IF a[3] < b[3] THEN a[3] ELSE b[3]
             g == Gcd(a[2], b[2])
         IN  Num(a[1] * (10 ^ (a[3] - m)) * (b[2] \div g)
                   + b[1] * (10 ^ (b[3] - m)) * (a[2] \div g),
                 (a[2] \div g) * b[2], m)

Sub(a, b) == Add(a, Neg(b))

RECURSIVE Digits(_)
Digits(k) == IF k < 10 THEN 1 ELSE 1 + Digits(k \div 10)

\* decimal order of magnitude: 10^(Mag - 1) < |a| < 10^(Mag + 1), a # 0
Mag(a) == Digits(Abs(a[1])) - Digits(a[2]) + a[3]

\* a < b; numbers two or more orders of magnitude apart are compared by
\* their magnitude, the others by their difference
Less(a, b) ==
    IF Sign(a) # Sign(b) THEN Sign(a) < Sign(b)
    ELSE IF Sign(a) = 0 THEN FALSE
    ELSE IF Mag(a) >= Mag(b) + 2 THEN Sign(a) < 0
    ELSE IF Mag(b) >= Mag(a) + 2 THEN Sign(a) > 0
    ELSE Sign(Sub(a, b)) < 0

Leq(a, b) == a = b \/ Less(a, b)
NMax(a, b) == IF Less(a, b) THEN b ELSE a

\* math.sqrt on the perfect squares the model's geometry produces
ISqrt(k) == CHOOSE r \in 0..k : r * r = k
Sqrt(a) ==
    IF IsZero(a) THEN Zero
    ELSE LET h == a[3] \div 2
             r == a[3] - 2 * h
         IN  Num(ISqrt(a[1] * (10 ^ r)), ISqrt(a[2]), h)

(***************************************************************************)
(* Vectors and matrices.  A vector is a function on 0..n-1, a matrix a     *)
(* function of rows, indexed as in the code (K[i][j] for K[i, j]).         *)
(***************************************************************************)
\* the element of a one-element set; Only({e : x \in {d}}) is e with x
\* standing for the value of d
Only(S) == CHOOSE r \in S : TRUE

\* f itself, as a function built once, entry by entry
Eager(f) == CHOOSE g \in {f} : g = g

RECURSIVE SumRange(_, _, _)
\* f[lo] + ... + f[hi-1]; exact addition is associative, the sum is split in halves
SumRange(f, lo, hi) ==
    IF hi <= lo THEN Zero
    ELSE IF hi = lo + 1 THEN f[lo]
    ELSE Add(SumRange(f, lo, (lo + hi) \div 2), SumRange(f, (lo + hi) \div 2, hi))

\* f[0] + ... + f[k-1]
SumTo(f, k) == Only({SumRange(g, 0, k) : g \in {Eager(f)}})

ZeroVec(n) == [i \in 0..(n - 1) |-> Zero]
ZeroMat(n) == [i \in 0..(n - 1) |-> [j \in 0..(n - 1) |-> Zero]]
Dim(A) == Cardinality(DOMAIN A)

\* A @ B
MatMul(A, B) ==
    Only({Eager([i \in DOMAIN X |-> [j \in DOMAIN X |->
                SumTo([k \in DOMAIN X |-> Mul(X[i][k], Y[k][j])], Dim(X))]]) :
          X \in {A}, Y \in {B}})

\* A.T
Transpose(A) ==
    Only({Eager([i \in DOMAIN X |-> [j \in DOMAIN X |-> X[j][i]]]) : X \in {A}})

\* A @ v
MatVec(A, v) ==
    Only({Eager([i \in DOMAIN X |->
                SumTo([k \in DOMAIN X |-> Mul(X[i][k], w[k])], Dim(X))]) :
          X \in {A}, w \in {v}})

\* K[d, :] = 0 alone: the row is zeroed, the column is left
ZeroRow(K, d) ==
    Only({Eager([i \in DOMAIN X |->
                [j \in DOMAIN X |-> IF i = d THEN Zero ELSE X[i][j]]]) :
          X \in {K}})

\* K[d, :] = 0 ; K[:, d] = 0
ZeroRowCol(K, d) ==
    Only({Eager([i \in DOMAIN X |->
                [j \in DOMAIN X |-> IF i = d \/ j = d THEN Zero ELSE X[i][j]]]) :
          X \in {K}})

(***************************************************************************)
(* backend/core/geometry.py                                                *)
(***************************************************************************)
Point3D(x, y, z) == <<FromInt(x), FromInt(y), FromInt(z)>>
Vector3D(x, y, z) == <<x, y, z>>

VecSub(p, q) == <<Sub(p[1], q[1]), Sub(p[2], q[2]), Sub(p[3], q[3])>>
dot(u, v) == Add(Add(Mul(u[1], v[1]), Mul(u[2], v[2])), Mul(u[3], v[3]))
cross(u, v) ==
    <<Sub(Mul(u[2], v[3]), Mul(u[3], v[2])),
      Sub(Mul(u[3], v[1]), Mul(u[1], v[3])),
      Sub(Mul(u[1], v[2]), Mul(u[2], v[1]))>>
magnitude(v) == Sqrt(dot(v, v))
normalize(v) ==
    Only({IF IsZero(mag) THEN <<Zero, Zero, Zero>>
          ELSE <<Div(w[1], mag), Div(w[2], mag), Div(w[3], mag)>> :
          w \in {v}, mag \in {magnitude(v)}})

distance_to(p, q) == magnitude(VecSub(p, q))
calculate_element_length(start_point, end_point) == distance_to(start_point, end_point)

\* the float nearest pi / 2, to seven decimals
HalfPi == Num(15707963, 1, -7)

\* math.cos(math.radians(a)) and math.sin(math.radians(a)): exact at the
\* quarter turns given in degrees; for a = HalfPi, math.radians(a) is
\* 0.0274156 and the values are given to six decimals
RightAngles == {Zero, FromInt(90), FromInt(180), FromInt(270)}
CosRadians(a) ==
    CASE a = Zero -> One [] a = FromInt(90) -> Zero [] a = FromInt(180) -> Neg(One)
      [] a = FromInt(270) -> Zero [] a = HalfPi -> Num(999624, 1, -6)
SinRadians(a) ==
    CASE a = Zero -> Zero [] a = FromInt(90) -> One [] a = FromInt(180) -> Zero
      [] a = FromInt(270) -> Neg(One) [] a = HalfPi -> Num(27412, 1, -6)

VerticalThreshold == Num(99, 1, -2)

\* local z before the roll: "if abs(local_x.dot(global_z)) > 0.99" the
\* element is vertical and global Y is the reference
InitialLocalZ(local_x) ==
    IF Less(VerticalThreshold, NAbs(dot(local_x, Vector3D(Zero, Zero, One))))
    THEN normalize(cross(local_x, Vector3D(Zero, One, Zero)))
    ELSE normalize(cross(local_x, Vector3D(Zero, Zero, One)))

\* local y and z rotated about local x, applied "if orientation_angle != 0"
Roll(local_y, local_z, orientation_angle) ==
    IF ~IsZero(orientation_angle)
    THEN <<[c \in 1..3 |-> Sub(Mul(local_y[c], CosRadians(orientation_angle)),
                              Mul(local_z[c], SinRadians(orientation_angle)))],
           [c \in 1..3 |-> Add(Mul(local_y[c], SinRadians(orientation_angle)),
                              Mul(local_z[c], CosRadians(orientation_angle)))]>>
    ELSE <<local_y, local_z>>

\* rows: local x, local y, local z in global components
calculate_local_coordinate_system(start_point, end_point, orientation_angle) ==
    Only({Only({Only({Only({
        Eager([i \in 0..2 |-> [j \in 0..2 |->
            IF i = 0 THEN local_x[j + 1] ELSE rolled[i][j + 1]]]) :
        rolled \in {Roll(local_y, local_z, orientation_angle)}}) :
        local_y \in {normalize(cross(local_z, local_x))}}) :
        local_z \in {InitialLocalZ(local_x)}}) :
        local_x \in {normalize(VecSub(end_point, start_point))}})

(***************************************************************************)
(* backend/solver/matrix_assembler.py: element matrices                    *)
(***************************************************************************)
dof_per_node == 6
ElemDofs == 0..11

In(i, j, S) == <<i, j>> \in S

\* the entry [i, j] of the local stiffness matrix, from its coefficients
StiffnessEntry(i, j, EA_L, z12, z6, EIz_L, y12, y6, EIy_L, GJ_L) ==
    CASE In(i, j, {<<0, 0>>, <<6, 6>>}) -> EA_L
      [] In(i, j, {<<0, 6>>, <<6, 0>>}) -> Neg(EA_L)
      [] In(i, j, {<<1, 1>>, <<7, 7>>}) -> z12
      [] In(i, j, {<<1, 5>>, <<5, 1>>, <<7, 11>>, <<11, 7>>}) -> z6
      [] In(i, j, {<<1, 7>>, <<7, 1>>}) -> Neg(z12)
      [] In(i, j, {<<1, 11>>, <<11, 1>>, <<5, 7>>, <<7, 5>>}) -> Neg(z6)
      [] In(i, j, {<<5, 5>>, <<11, 11>>}) -> Mul(FromInt(4), EIz_L)
      [] In(i, j, {<<5, 11>>, <<11, 5>>}) -> Mul(FromInt(2), EIz_L)
      [] In(i, j, {<<2, 2>>, <<8, 8>>}) -> y12
      [] In(i, j, {<<2, 4>>, <<4, 2>>, <<8, 10>>, <<10, 8>>}) -> Neg(y6)
      [] In(i, j, {<<2, 8>>, <<8, 2>>}) -> Neg(y12)
      [] In(i, j, {<<2, 10>>, <<10, 2>>, <<4, 8>>, <<8, 4>>}) -> y6
      [] In(i, j, {<<4, 4>>, <<10, 10>>}) -> Mul(FromInt(4), EIy_L)
      [] In(i, j, {<<4, 10>>, <<10, 4>>}) -> Mul(FromInt(2), EIy_L)
      [] In(i, j, {<<3, 3>>, <<9, 9>>}) -> GJ_L
      [] In(i, j, {<<3, 9>>, <<9, 3>>}) -> Neg(GJ_L)
      [] OTHER -> Zero

\* 3D frame element stiffness matrix in local coordinates
frame_element_stiffness_3d(E, G, A, Iy, Iz, J, L) ==
    Only({Eager([i \in ElemDofs |-> [j \in ElemDofs |->
                StiffnessEntry(i, j, EA_L, z12, z6, EIz_L, y12, y6, EIy_L, GJ_L)]]) :
          EA_L \in {Div(Mul(E, A), L)},
          z12 \in {Mul(FromInt(12), Div(Mul(E, Iz), Mul(L, Mul(L, L))))},
          z6 \in {Div(Mul(FromInt(6), Div(Mul(E, Iz), L)), L)},
          EIz_L \in {Div(Mul(E, Iz), L)},
          y12 \in {Mul(FromInt(12), Div(Mul(E, Iy), Mul(L, Mul(L, L))))},
          y6 \in {Div(Mul(FromInt(6), Div(Mul(E, Iy), L)), L)},
          EIy_L \in {Div(Mul(E, Iy), L)},
          GJ_L \in {Div(Mul(G, J), L)}})

\* the entry [i, j] of the local consistent mass matrix
MassEntry(i, j, mL, mL2, mL3) ==
    CASE In(i, j, {<<0, 0>>, <<6, 6>>, <<3, 3>>, <<9, 9>>}) -> Div(mL, FromInt(3))
      [] In(i, j, {<<0, 6>>, <<6, 0>>, <<3, 9>>, <<9, 3>>}) -> Div(mL, FromInt(6))
      [] In(i, j, {<<1, 1>>, <<7, 7>>, <<2, 2>>, <<8, 8>>}) ->
            Div(Mul(FromInt(13), mL), FromInt(35))
      [] In(i, j, {<<1, 5>>, <<5, 1>>, <<7, 11>>, <<11, 7>>}) ->
            Div(Mul(FromInt(11), mL2), FromInt(210))
      [] In(i, j, {<<1, 7>>, <<7, 1>>, <<2, 8>>, <<8, 2>>}) ->
            Div(Mul(FromInt(9), mL), FromInt(70))
      [] In(i, j, {<<1, 11>>, <<11, 1>>, <<5, 7>>, <<7, 5>>}) ->
            Div(Mul(FromInt(-13), mL2), FromInt(420))
      [] In(i, j, {<<2, 4>>, <<4, 2>>, <<8, 10>>, <<10, 8>>}) ->
            Div(Mul(FromInt(-11), mL2), FromInt(210))
      [] In(i, j, {<<2, 10>>, <<10, 2>>, <<4, 8>>, <<8, 4>>}) ->
            Div(Mul(FromInt(13), mL2), FromInt(420))
      [] In(i, j, {<<4, 4>>, <<10, 10>>, <<5, 5>>, <<11, 11>>}) -> Div(mL3, FromInt(105))
      [] In(i, j, {<<4, 10>>, <<10, 4>>, <<5, 11>>, <<11, 5>>}) ->
            Div(Neg(mL3), FromInt(140))
      [] OTHER -> Zero

\* 3D frame element consistent mass matrix in local coordinates
frame_element_mass_3d(rho, A, L) ==
    Only({Eager([i \in ElemDofs |-> [j \in ElemDofs |-> MassEntry(i, j, mL, mL2, mL3)]]) :
          mL \in {Mul(Mul(rho, A), L)},
          mL2 \in {Mul(Mul(Mul(rho, A), L), L)},
          mL3 \in {Mul(Mul(Mul(Mul(rho, A), L), L), L)}})

\* 12x12 transformation: four copies of the 3x3 local coordinate system
get_transformation_matrix_3d(start_point, end_point, orientation_angle) ==
    Only({Eager([i \in ElemDofs |-> [j \in ElemDofs |->
                IF i \div 3 = j \div 3 THEN local_coords[i % 3][j % 3] ELSE Zero]]) :
          local_coords \in {calculate_local_coordinate_system(
                                start_point, end_point, orientation_angle)}})

\* a releases dict is modelled by the sets of release types flagged True at
\* each end; types other than the three moments match no branch of the code
ReleaseDof(release_type) ==
    CASE release_type = "moment_x" -> 3
      [] release_type = "moment_y" -> 4
      [] release_type = "moment_z" -> 5

\* the start-node releases only
StartReleasedDofs(releases) ==
    {ReleaseDof(t) : t \in releases.start \cap {"moment_x", "moment_y", "moment_z"}}

\* the rows and columns apply_element_releases zeroes for a releases dict
MomentReleases == {"moment_x", "moment_y", "moment_z"}
ReleasedDofs(releases) ==
    {ReleaseDof(t) : t \in releases.start \cap MomentReleases}
        \cup {6 + ReleaseDof(t) : t \in releases.end \cap MomentReleases}

apply_element_releases(K_element, releases) ==
    Only({Eager([i \in ElemDofs |-> [j \in ElemDofs |->
                IF i \in zs \/ j \in zs THEN Zero ELSE X[i][j]]]) :
          X \in {K_element}, zs \in {ReleasedDofs(releases)}})

(***************************************************************************)
(* backend/solver/matrix_assembler.py: MatrixAssembler                     *)
(***************************************************************************)
\* Python truthiness of an optional float: None and 0.0 are false
Truthy(x) == x # None /\ x # Zero
\* an optional integer id (a nullable column): NoId stands for None
NoId == -1
\* Python truthiness of an optional id: None and 0 are false
TruthyId(id) == id # NoId /\ id # 0

\* MatrixAssembler.__init__; boundary_conditions is the list the engine
\* collects, at most one per node, kept in its iteration order
MatrixAssembler(nodes, elements, materials, sections, boundary_conditions) ==
    [nodes |-> nodes, elements |-> elements, materials |-> materials,
     sections |-> sections, boundary_conditions |-> boundary_conditions,
     total_dof |-> Cardinality(DOMAIN nodes) * dof_per_node,
     global_stiffness |-> None, global_mass |-> None, global_load |-> None]

\* the position of node_id in the descending order of the node ids
DescendingIndex(asm, node_id) == Cardinality({m \in DOMAIN asm.nodes : m > node_id})

\* node_to_index: position of node_id in sorted(nodes.keys())
node_to_index(asm, node_id) == Cardinality({m \in DOMAIN asm.nodes : m < node_id})

NodePoint(asm, node_id) ==
    <<asm.nodes[node_id][1], asm.nodes[node_id][2], asm.nodes[node_id][3]>>

ElementLength(asm, element) ==
    calculate_element_length(NodePoint(asm, element.start_node_id),
                             NodePoint(asm, element.end_node_id))

ElementT(asm, element) ==
    get_transformation_matrix_3d(NodePoint(asm, element.start_node_id),
                                 NodePoint(asm, element.end_node_id),
                                 element.orientation_angle)

\* E = material.elastic_modulus * 1000
ConvertElasticModulus(elastic_modulus) == Mul(elastic_modulus, Num(1000, 1, 0))
\* G = E / (2 * (1 + material.poisson_ratio))
ShearModulus(E, poisson_ratio) == Div(E, Mul(FromInt(2), Add(One, poisson_ratio)))
\* A = section.area / 1e6
ConvertArea(area) == Div(area, Num(1, 1, 6))
\* Iy, Iz, J = section value / 1e12
ConvertInertia(inertia) == Div(inertia, Num(1, 1, 12))

\* the local stiffness matrix get_element_stiffness_matrix builds (K_local)
ElementKLocal(asm, element) ==
    Only({frame_element_stiffness_3d(
              E, ShearModulus(E, material.poisson_ratio),
              ConvertArea(section.area),
              ConvertInertia(section.moment_of_inertia_y),
              ConvertInertia(section.moment_of_inertia_z),
              ConvertInertia(section.torsional_constant),
              ElementLength(asm, element)) :
          material \in {asm.materials[element.material_id]},
          section \in {asm.sections[element.section_id]},
          E \in {ConvertElasticModulus(asm.materials[element.material_id].elastic_modulus)}})

\* T.T @ K_local @ T
ToGlobal(T, K_local) ==
    Only({MatMul(MatMul(Transpose(X), K_local), X) : X \in {T}})

\* "if element.releases:" then the releases are applied to K_global
ReleaseGlobal(K_global, element) ==
    IF element.releases # None
    THEN apply_element_releases(K_global, element.releases)
    ELSE K_global

\* element stiffness matrix in global coordinates, releases applied
get_element_stiffness_matrix(asm, element) ==
    ReleaseGlobal(ToGlobal(ElementT(asm, element), ElementKLocal(asm, element)), element)

\* element mass matrix in global coordinates
get_element_mass_matrix(asm, element) ==
    ToGlobal(ElementT(asm, element),
             frame_element_mass_3d(asm.materials[element.material_id].density,
                                   ConvertArea(asm.sections[element.section_id].area),
                                   ElementLength(asm, element)))

get_element_dof_indices(asm, element) ==
    [i \in ElemDofs |->
        IF i < dof_per_node
        THEN node_to_index(asm, element.start_node_id) * dof_per_node + i
        ELSE node_to_index(asm, element.end_node_id) * dof_per_node + (i - dof_per_node)]

Max(S) == CHOOSE x \in S : \A y \in S : y <= x

RECURSIVE SumOver(_, _)
\* the sum of f over the index set S
SumOver(f, S) ==
    IF S = {} THEN Zero
    ELSE Only({Add(f[x], SumOver(f, S \ {x})) : x \in {CHOOSE y \in S : TRUE}})

\* the local DOFs of the element with index vector dofs that map to global p
LocalAt(dofs, p) == {i \in ElemDofs : dofs[i] = p}

\* the contribution of one element matrix to the global entry [p, q]
ElementEntry(K_element, dofs, p, q) ==
    Only({SumOver([ij \in ip \X jq |-> K_element[ij[1]][ij[2]]], ip \X jq) :
          ip \in {LocalAt(dofs, p)}, jq \in {LocalAt(dofs, q)}})

\* the loop with "=" for "+=": where element matrices overlap, the last
\* element overwrites the entries of the earlier ones
Overwrite(asm, Ke) ==
    Only({Eager([p \in 0..(asm.total_dof - 1) |-> [q \in 0..(asm.total_dof - 1) |->
                Only({IF touching = {} THEN Zero
                      ELSE ElementEntry(X[Max(touching)], dofs[Max(touching)], p, q) :
                      touching \in {{n \in DOMAIN asm.elements :
                                        LocalAt(dofs[n], p) # {} /\ LocalAt(dofs[n], q) # {}}}})]]) :
          X \in {Ke},
          dofs \in {Eager([n \in DOMAIN asm.elements |->
                        get_element_dof_indices(asm, asm.elements[n])])}})

\* the loop "K_global[global_i, global_j] += K_element[i, j]" over all
\* elements; Ke[n] is the matrix of the n-th element
Scatter(asm, Ke) ==
    Only({Eager([p \in 0..(asm.total_dof - 1) |-> [q \in 0..(asm.total_dof - 1) |->
                SumOver([n \in DOMAIN asm.elements |-> ElementEntry(X[n], dofs[n], p, q)],
                        DOMAIN asm.elements)]]) :
          X \in {Ke},
          dofs \in {Eager([n \in DOMAIN asm.elements |->
                        get_element_dof_indices(asm, asm.elements[n])])}})

\* large stiffness for a restrained DOF
Penalty == Num(1, 1, 12)

\* K[dof, :] = 0; K[:, dof] = 0; K[dof, dof] = 1e12
RestrainDof(K, dof) ==
    Only({Eager([zeroed EXCEPT ![dof][dof] = Penalty]) : zeroed \in {ZeroRowCol(K, dof)}})

RECURSIVE RestrainLoop(_, _, _, _)
\* for i, restrained in enumerate(restraints), from index i on
RestrainLoop(K, bc, base_dof, i) ==
    Only({IF i = dof_per_node THEN X
          ELSE RestrainLoop(IF bc.restrain[i + 1] THEN RestrainDof(X, base_dof + i) ELSE X,
                            bc, base_dof, i + 1) :
          X \in {K}})

\* "if bc.spring_k": a spring on every DOF that has a constant, restrained or not
SpringGiven(bc, i) == Truthy(bc.spring[i + 1])

\* "if bc.spring_k and not bc.restrain": the DOFs of bc that receive a spring
SpringApplies(bc, i) == Truthy(bc.spring[i + 1]) /\ ~bc.restrain[i + 1]

AddSprings(K, bc, base_dof) ==
    Only({Eager([p \in DOMAIN X |-> [q \in DOMAIN X |->
            IF p = q /\ p - base_dof \in 0..(dof_per_node - 1)
                     /\ SpringApplies(bc, p - base_dof)
            THEN Add(X[p][q], bc.spring[p - base_dof + 1])
            ELSE X[p][q]]]) :
          X \in {K}})

\* the first DOF of the node of a boundary condition
BaseDof(asm, node_id) == node_to_index(asm, node_id) * dof_per_node

\* one iteration of "for node_id, bc in self.boundary_conditions.items()"
ApplyBoundaryCondition(asm, K, bc) ==
    AddSprings(RestrainLoop(K, bc, BaseDof(asm, bc.node_id), 0),
               bc, BaseDof(asm, bc.node_id))

RECURSIVE BoundaryLoop(_, _, _)
\* for node_id, bc in self.boundary_conditions.items(), from the n-th on
BoundaryLoop(asm, K, n) ==
    Only({IF n > Len(asm.boundary_conditions) THEN X
          ELSE BoundaryLoop(asm,
                            ApplyBoundaryCondition(asm, X, asm.boundary_conditions[n]),
                            n + 1) :
          X \in {K}})

apply_boundary_conditions(asm, K_global) == BoundaryLoop(asm, K_global, 1)

\* the element matrices summed into the global matrix, before any boundary
\* condition is applied
AssembleElements(asm) ==
    Scatter(asm, Eager([n \in DOMAIN asm.elements |->
                    get_element_stiffness_matrix(asm, asm.elements[n])]))

assemble_global_stiffness_matrix(asm) ==
    apply_boundary_conditions(asm, AssembleElements(asm))

assemble_global_mass_matrix(asm) ==
    Scatter(asm, Eager([n \in DOMAIN asm.elements |->
                    get_element_mass_matrix(asm, asm.elements[n])]))

\* the value of an operation that raised (KeyError on a missing node or element)
Raised == <<"exception">>

\* a factors dict is the record [items |-> function from load case to factor];
\* "if load_combination_factors:" is false for None and for the empty dict
FactorFor(load_combination_factors, load_case) ==
    IF load_combination_factors # None /\ DOMAIN load_combination_factors.items # {}
    THEN IF load_case \in DOMAIN load_combination_factors.items
         THEN load_combination_factors.items[load_case]
         ELSE Zero
    ELSE One

\* "load.start_distance or 0.0" and "load.end_distance or length"
StartDistance(load) == IF Truthy(load.start_distance) THEN load.start_distance ELSE Zero
EndDistance(load, length) == IF Truthy(load.end_distance) THEN load.end_distance ELSE length

\* w L^2 / 8, the midspan moment of a simply supported span
MidspanMoment(w, load_length) == Div(Mul(w, Mul(load_length, load_length)), FromInt(8))

\* w * load_length / 2 and w * load_length**2 / 12
HalfLoad(w, load_length) == Div(Mul(w, load_length), FromInt(2))
FixedEndMoment(w, load_length) == Div(Mul(w, Mul(load_length, load_length)), FromInt(12))

\* equivalent nodal loads of a distributed load: <<start node load, end node load>>,
\* each [node_id, f] with f = <<fx, fy, fz, mx, my, mz>>
convert_distributed_to_nodal(asm, load, element) ==
    Only({<<[node_id |-> element.start_node_id,
             f |-> <<HalfLoad(load.force[1], load_length),
                     HalfLoad(load.force[2], load_length),
                     HalfLoad(load.force[3], load_length), Zero,
                     FixedEndMoment(load.force[3], load_length),
                     Neg(FixedEndMoment(load.force[2], load_length))>>],
            [node_id |-> element.end_node_id,
             f |-> <<HalfLoad(load.force[1], load_length),
                     HalfLoad(load.force[2], load_length),
                     HalfLoad(load.force[3], load_length), Zero,
                     Neg(FixedEndMoment(load.force[3], load_length)),
                     FixedEndMoment(load.force[2], load_length)>>]>> :
          load_length \in {Sub(EndDistance(load, ElementLength(asm, element)),
                               StartDistance(load))}})

\* F_global[base_dof + k] += factor * f[k] for k in 0..5
AddNodal(asm, F, node_id, factor, f) ==
    Only({Eager([p \in DOMAIN X |->
            IF p - base_dof \in 0..(dof_per_node - 1)
            THEN Add(X[p], Mul(factor, f[p - base_dof + 1]))
            ELSE X[p]]) :
          X \in {F}, base_dof \in {BaseDof(asm, node_id)}})

ElementById(asm, element_id) ==
    asm.elements[CHOOSE n \in DOMAIN asm.elements : asm.elements[n].id = element_id]

\* both equivalent nodal loads of a distributed load added to F
AddEquivalent(asm, F, factor, eq) ==
    AddNodal(asm, AddNodal(asm, F, eq[1].node_id, factor, eq[1].f),
             eq[2].node_id, factor, eq[2].f)

\* one iteration of "for load in loads"
AddLoad(asm, F, load, load_combination_factors) ==
    IF TruthyId(load.node_id)
    THEN IF load.node_id \in DOMAIN asm.nodes
         THEN AddNodal(asm, F, load.node_id,
                       FactorFor(load_combination_factors, load.load_case),
                       <<load.force[1], load.force[2], load.force[3],
                         load.moment[1], load.moment[2], load.moment[3]>>)
         ELSE Raised
    ELSE IF TruthyId(load.element_id)
    THEN IF \E n \in DOMAIN asm.elements : asm.elements[n].id = load.element_id
         THEN AddEquivalent(asm, F, FactorFor(load_combination_factors, load.load_case),
                            convert_distributed_to_nodal(
                                asm, load, ElementById(asm, load.element_id)))
         ELSE Raised
    ELSE F

RECURSIVE LoadLoop(_, _, _, _, _)
LoadLoop(asm, F, loads, load_combination_factors, n) ==
    Only({IF X = Raised \/ n > Len(loads) THEN X
          ELSE LoadLoop(asm, AddLoad(asm, X, loads[n], load_combination_factors),
                        loads, load_combination_factors, n + 1) :
          X \in {F}})

\* the global load vector, or Raised
assemble_load_vector(asm, loads, load_combination_factors) ==
    LoadLoop(asm, ZeroVec(asm.total_dof), loads, load_combination_factors, 1)

(***************************************************************************)
(* Exact linear algebra behind scipy's spsolve and numpy's cond            *)
(***************************************************************************)
Singular == <<"singular">>

Min(S) == CHOOSE x \in S : \A y \in S : x <= y

\* row r of A after rows k and p have been exchanged
Exchanged(A, k, p, r) == IF r = k THEN A[p] ELSE IF r = p THEN A[k] ELSE A[r]

\* row minus row[k] times the normalised pivot row
Reduce(row, rowk, k) ==
    IF IsZero(row[k]) THEN row
    ELSE [j \in DOMAIN row |-> Sub(row[j], Mul(row[k], rowk[j]))]

\* one step of Gauss-Jordan elimination on column k with the pivot in row p
Pivot(A, k, p) ==
    Only({Eager([r \in DOMAIN A |->
                IF r = k THEN rowk ELSE Reduce(Exchanged(A, k, p, r), rowk, k)]) :
          rowk \in {Eager([j \in DOMAIN A[p] |-> Div(A[p][j], A[p][k])])}})

RECURSIVE Eliminate(_, _, _)
\* Gauss-Jordan elimination of the n-row matrix A from column k on; the
\* reduced matrix, or Singular when a column has no pivot
Eliminate(A, n, k) ==
    Only({IF k = n THEN X
          ELSE IF cand = {} THEN Singular
          ELSE Eliminate(Pivot(X, k, Min(cand)), n, k + 1) :
          X \in {A},
          cand \in {{r \in k..(n - 1) : ~IsZero(A[r][k])}}})

\* [K | I]
Augmented(K, n) ==
    Eager([i \in 0..(n - 1) |-> [j \in 0..(2 * n - 1) |->
        IF j < n THEN K[i][j] ELSE IF j - n = i THEN One ELSE Zero]])

\* the inverse of K, or Singular
Inverse(K) ==
    Only({IF red = Singular THEN Singular
          ELSE Eager([i \in 0..(Dim(K) - 1) |-> [j \in 0..(Dim(K) - 1) |->
                        red[i][Dim(K) + j]]]) :
          red \in {Eliminate(Augmented(K, Dim(K)), Dim(K), 0)}})

\* the largest entry of the vector of numbers col
MaxOf(col) == col[CHOOSE j \in DOMAIN col : \A k \in DOMAIN col : Leq(col[k], col[j])]

\* max over columns of the absolute column sum
Norm1(A) ==
    Only({MaxOf(Eager([j \in DOMAIN X |-> SumTo([i \in DOMAIN X |-> NAbs(X[i][j])], Dim(X))])) :
          X \in {A}})

\* spsolve(K, F) for a nonsingular K whose inverse is Kinv: the solution of K u = F
spsolve(Kinv, F) == MatVec(Kinv, F)

(***************************************************************************)
(* backend/solver/linear_solver.py                                         *)
(***************************************************************************)
\* self.tolerance
Tolerance == Num(1, 1, -12)
\* the limit "cond_num > 1e12"
CondLimit == Num(1, 1, 12)
\* "self.K.shape[0] < 1000"
SmallMatrix == 1000

\* an exception raised by an accessor, as the outcome of the call
ValueError(message) == [raised |-> "ValueError", message |-> message]
IndexError == [raised |-> "IndexError", message |-> "index is out of bounds"]

\* "if not self.solved: raise ValueError(...)", the first statement of every
\* LinearSolver accessor
NotSolved == ValueError("Analysis not solved yet")

\* LinearSolver.__init__; None is also the empty results dict
LinearSolver(stiffness_matrix, load_vector) ==
    [K |-> stiffness_matrix, F |-> load_vector, displacements |-> None,
     reactions |-> None, solved |-> FALSE, results |-> None]

\* the outcomes of "cond_num > 1e12" for a matrix of size n whose exact
\* 1-norm condition number is cond1.  numpy's cond is the 2-norm condition
\* number c2, and cond1 / n <= c2 <= cond1 for a symmetric matrix, so the test
\* is decided when cond1 <= 1e12 or cond1 > n * 1e12 and open in between.
ConditionOutcomes(cond1, n) ==
    IF Leq(cond1, CondLimit) THEN {TRUE}
    ELSE IF Less(Mul(FromInt(n), CondLimit), cond1) THEN {FALSE}
    ELSE BOOLEAN

\* the values _check_matrix_conditioning can return for the symmetric matrix
\* K with inverse Kinv (or Singular); a singular matrix has an infinite
\* condition number
check_matrix_conditioning(K, Kinv) ==
    IF \E d \in DOMAIN K : Less(NAbs(K[d][d]), Tolerance) THEN {FALSE}
    ELSE IF ~(Dim(K) < SmallMatrix) THEN {TRUE}
    ELSE IF Kinv = Singular THEN {FALSE}
    ELSE ConditionOutcomes(Mul(Norm1(K), Norm1(Kinv)), Dim(K))

\* self.reactions = self.K @ self.displacements - self.F
Reactions(K, displacements, F) ==
    Only({Eager([d \in DOMAIN F |-> Sub(Ku[d], F[d])]) :
          Ku \in {MatVec(K, displacements)}})

\* the solver after a successful spsolve
Converged(solver, displacements) ==
    Only({[solver EXCEPT !.displacements = displacements,
                         !.reactions = reactions,
                         !.solved = TRUE,
                         !.results = [displacements |-> displacements,
                                      reactions |-> reactions,
                                      status |-> "converged",
                                      error |-> Zero]] :
          reactions \in {Reactions(solver.K, displacements, solver.F)}})

\* a failed result sized by K: np.zeros(self.K.shape[0]) for np.zeros_like(self.F)
FailedLikeK(solver, error) ==
    [solver EXCEPT !.results = [displacements |-> ZeroVec(Dim(solver.K)),
                                reactions |-> ZeroVec(Dim(solver.K)),
                                status |-> "failed",
                                error |-> error]]

\* the solver with the failed result of the else and except branches of solve
Failed(solver, error) ==
    [solver EXCEPT !.results = [displacements |-> ZeroVec(Dim(solver.F)),
                                reactions |-> ZeroVec(Dim(solver.F)),
                                status |-> "failed",
                                error |-> error]]

\* spsolve raises ValueError when the length of F is not the size of K
SpsolveRaises(solver) == Dim(solver.F) # Dim(solver.K)

\* the solver after solve() when the conditioning check returned well_conditioned
SolveWith(solver, Kinv, well_conditioned) ==
    IF ~well_conditioned THEN Failed(solver, "Matrix is singular or poorly conditioned")
    ELSE IF SpsolveRaises(solver) THEN Failed(solver, "matrix - rhs dimension mismatch")
    ELSE Converged(solver, spsolve(Kinv, solver.F))

\* the solvers LinearSolver.solve can leave behind
solve(solver) ==
    UNION {{SolveWith(solver, Kinv, ok) : ok \in check_matrix_conditioning(solver.K, Kinv)} :
           Kinv \in {Inverse(solver.K)}}

\* the six values of node node_index in a global vector
NodeSlice(v, node_index) == [k \in 1..dof_per_node |-> v[node_index * dof_per_node + k - 1]]

\* ux, uy, uz, rx, ry, rz per node index
get_nodal_displacements(solver, node_indices) ==
    IF ~solver.solved THEN NotSolved
    ELSE [i \in node_indices |-> NodeSlice(solver.displacements, i)]

\* fx, fy, fz, mx, my, mz per restrained node index
get_reaction_forces(solver, restrained_node_indices) ==
    IF ~solver.solved THEN NotSolved
    ELSE [i \in restrained_node_indices |-> NodeSlice(solver.reactions, i)]

\* max(abs(local_forces[a]), abs(local_forces[b]))
MaxAbs(local_forces, a, b) == NMax(NAbs(local_forces[a]), NAbs(local_forces[b]))

\* the result dict built from the local force vector
InternalForces(local_forces) ==
    [start_node |-> [k \in 1..6 |-> local_forces[k - 1]],
     end_node |-> [k \in 1..6 |-> local_forces[k + 5]],
     max_axial |-> NAbs(local_forces[0]),
     max_moment_y |-> MaxAbs(local_forces, 4, 10),
     max_moment_z |-> MaxAbs(local_forces, 5, 11),
     max_shear_y |-> MaxAbs(local_forces, 1, 7),
     max_shear_z |-> MaxAbs(local_forces, 2, 8),
     max_torsion |-> MaxAbs(local_forces, 3, 9)]

\* internal forces of one element: N, Vy, Vz, T, My, Mz at both ends
calculate_element_internal_forces(asm, element, element_displacements) ==
    Only({InternalForces(local_forces) :
          local_forces \in {MatVec(ElementKLocal(asm, element),
                                   MatVec(ElementT(asm, element), element_displacements))}})

\* the global displacements at the twelve DOFs of an element
ElementDisplacements(displacements, dofs) ==
    Eager([i \in ElemDofs |-> displacements[dofs[i]]])

\* element forces by position in the element list
calculate_element_forces(solver, asm, elements) ==
    IF ~solver.solved THEN NotSolved
    ELSE [n \in DOMAIN elements |->
        calculate_element_internal_forces(asm, elements[n],
            ElementDisplacements(solver.displacements,
                                 get_element_dof_indices(asm, elements[n])))]

\* the default tolerance of check_equilibrium
EquilibriumTolerance == Num(1, 1, -6)

\* np.abs(self.K @ self.displacements - applied_loads)
Residual(K, displacements, applied_loads) ==
    Only({Eager([d \in DOMAIN applied_loads |-> NAbs(Sub(Ku[d], applied_loads[d]))]) :
          Ku \in {MatVec(K, displacements)}})

check_equilibrium(solver, applied_loads) ==
    IF ~solver.solved THEN NotSolved
    ELSE Only({[equilibrium_satisfied |-> Less(max_residual, EquilibriumTolerance),
           max_residual_force |-> max_residual] :
          max_residual \in {MaxOf(Residual(solver.K, solver.displacements, applied_loads))}})

(***************************************************************************)
(* backend/solver/modal_analyzer.py: ModalAnalyzer on its own               *)
(***************************************************************************)
\* the non-finite floats
NaN == <<"nan">>
Infinity == <<"inf">>
IsFinite(x) == x # NaN /\ x # Infinity

\* np.abs, np.sqrt and "1.0 /" on an array entry: numpy divides by zero
\* without raising
FAbs(x) == IF IsFinite(x) THEN NAbs(x) ELSE x
FSqrt(x) == IF IsFinite(x) THEN Sqrt(x) ELSE x
Reciprocal(x) ==
    IF x = NaN THEN NaN
    ELSE IF x = Infinity THEN Zero
    ELSE IF IsZero(x) THEN Infinity
    ELSE Div(One, x)

\* ModalAnalyzer.__init__; eigenvectors holds the columns of the array, one
\* vector per mode
NewModalAnalyzer(stiffness_matrix, mass_matrix) ==
    [K |-> stiffness_matrix, M |-> mass_matrix, eigenvalues |-> None,
     eigenvectors |-> None, frequencies |-> None, periods |-> None,
     solved |-> FALSE, num_modes |-> 10, shift |-> Zero, results |-> None]

\* the determinant of the leading n by n block of A, expanded along row 0
Minor(A, n, c) ==
    [i \in 0..(n - 2) |-> [j \in 0..(n - 2) |-> A[i + 1][IF j < c THEN j ELSE j + 1]]]
RECURSIVE Det(_, _)
Det(A, n) ==
    IF n = 0 THEN One
    ELSE SumTo([c \in 0..(n - 1) |->
                  Mul(IF c % 2 = 0 THEN A[0][c] ELSE Neg(A[0][c]), Det(Minor(A, n, c), n - 1))], n)

\* eigsh asks for a positive definite M: all leading minors positive
PositiveDefinite(M) == \A n \in 1..Dim(M) : Less(Zero, Det(M, n))

\* K - sigma M, the matrix eigsh factorizes in shift-invert mode
Shifted(K, M, sigma) ==
    [i \in DOMAIN K |-> [j \in DOMAIN K |-> Sub(K[i][j], Mul(sigma, M[i][j]))]]

\* K v = lambda M v
IsEigenPair(K, M, pair) ==
    /\ IsFinite(pair[1])
    /\ MatVec(K, pair[2]) = [i \in DOMAIN K |-> Mul(pair[1], MatVec(M, pair[2])[i])]

\* |lambda - sigma|
Distance(lambda, sigma) == NAbs(Sub(lambda, sigma))

\* chosen are eigenpairs of (K, M) for the eigenvalues nearest sigma, one pair
\* per eigenvalue (the problems analysed have no repeated eigenvalue)
NearestPairs(K, M, sigma, chosen, pairs) ==
    /\ \A i \in DOMAIN chosen : IsEigenPair(K, M, chosen[i])
    /\ \A i \in DOMAIN chosen, j \in DOMAIN chosen : i # j => chosen[i][1] # chosen[j][1]
    /\ \A other \in pairs :
          IsEigenPair(K, M, other) /\ (\A i \in DOMAIN chosen : chosen[i][1] # other[1]) =>
             \A i \in DOMAIN chosen :
                Leq(Distance(chosen[i][1], sigma), Distance(other[1], sigma))

\* what scipy's eigsh(K, k, M, sigma, which='LM') hands back.  It raises when
\* k is not in 1..n-1, when K - sigma M is singular, and when ARPACK does not
\* converge.  For a positive definite M it returns the k eigenpairs nearest
\* sigma, in any order, the eigenvectors in the scale and sign of the
\* candidates in pairs.  For any other M the arrays are not determined by the
\* eigenproblem: any k of the candidates with n components
EigshRaised == [raised |-> TRUE, eigenvalues |-> None, eigenvectors |-> None]
eigsh(K, k, M, sigma, pairs) ==
    IF k < 1 \/ k >= Dim(K) THEN {EigshRaised}
    ELSE IF Inverse(Shifted(K, M, sigma)) = Singular THEN {EigshRaised}
    ELSE {EigshRaised} \cup
         UNION {{[raised |-> FALSE,
                  eigenvalues |-> [i \in 0..(k - 1) |-> chosen[i][1]],
                  eigenvectors |-> [i \in 0..(k - 1) |-> chosen[i][2]]] :
                   chosen \in {c \in [0..(k - 1) -> candidates] :
                       PositiveDefinite(M) => NearestPairs(K, M, sigma, c, candidates)}} :
                candidates \in {{p \in pairs : Dim(p[2]) = Dim(K)}}}

\* a sorts before b in np.argsort: ascending, NaN last
SortsBefore(a, b) ==
    IF a = NaN THEN FALSE ELSE IF b = NaN THEN TRUE ELSE Less(a, b)

\* the index arrays np.argsort can return: equal values in either order
argsort(values) ==
    {p \in [DOMAIN values -> DOMAIN values] :
        /\ \A i \in DOMAIN values, j \in DOMAIN values : i # j => p[i] # p[j]
        /\ \A i \in DOMAIN values, j \in DOMAIN values :
              i < j => ~SortsBefore(values[p[j]], values[p[i]])}

\* mode.T @ self.M @ mode
ModalMass(M, mode) ==
    Only({SumTo([i \in DOMAIN v |-> Mul(v[i], Mv[i])], Dim(v)) :
          v \in {mode}, Mv \in {MatVec(M, mode)}})

\* "if modal_mass > 0: mode / np.sqrt(modal_mass)"
MassNormalized(M, mode) ==
    Only({IF Less(Zero, modal_mass)
          THEN [i \in DOMAIN mode |-> Div(mode[i], Sqrt(modal_mass))]
          ELSE mode :
          modal_mass \in {ModalMass(M, mode)}})

\* np.argmax(np.abs(mode)): the first index of the largest absolute value
ArgMaxAbs(mode) ==
    Min({i \in DOMAIN mode : \A j \in DOMAIN mode : Leq(NAbs(mode[j]), NAbs(mode[i]))})

\* the mode left as the mass normalization returns it, with no sign convention
NoSignConvention(M, mode) == MassNormalized(M, mode)

\* one iteration of _normalize_mode_shapes: mass normalization, then the
\* sign convention "if eigenvectors[max_idx, i] < 0: eigenvectors[:, i] *= -1"
NormalizedMode(M, mode) ==
    Only({IF Less(scaled[ArgMaxAbs(scaled)], Zero)
          THEN [i \in DOMAIN scaled |-> Neg(scaled[i])]
          ELSE scaled :
          scaled \in {MassNormalized(M, mode)}})

normalize_mode_shapes(M, eigenvectors) ==
    [i \in DOMAIN eigenvectors |-> NormalizedMode(M, eigenvectors[i])]

\* np.sqrt(np.abs(eigenvalues)) / (2 * np.pi) and 1.0 / frequencies.  A
\* frequency is held as the number of units of 1/(2 pi), a period as the
\* number of units of 2 pi: order, zero and finiteness are those of the floats
Frequencies(eigenvalues) == [i \in DOMAIN eigenvalues |-> FSqrt(FAbs(eigenvalues[i]))]
Periods(frequencies) == [i \in DOMAIN frequencies |-> Reciprocal(frequencies[i])]

\* the analyzer after the try block of solve ran through, on the arrays
\* returned by eigsh and the index array sort_indices
ModesStored(analyzer, returned, sort_indices) ==
    Only({[analyzer EXCEPT
             !.eigenvalues = eigenvalues,
             !.eigenvectors = eigenvectors,
             !.frequencies = frequencies,
             !.periods = Periods(frequencies),
             !.solved = TRUE,
             !.results = [eigenvalues |-> eigenvalues,
                          eigenvectors |-> eigenvectors,
                          frequencies |-> frequencies,
                          periods |-> Periods(frequencies),
                          status |-> "converged",
                          num_modes |-> analyzer.num_modes]] :
          eigenvalues \in {[i \in DOMAIN sort_indices |->
                                returned.eigenvalues[sort_indices[i]]]},
          frequencies \in {Frequencies([i \in DOMAIN sort_indices |->
                                returned.eigenvalues[sort_indices[i]]])},
          eigenvectors \in {normalize_mode_shapes(analyzer.M,
                                [i \in DOMAIN sort_indices |->
                                    returned.eigenvectors[sort_indices[i]]])}})

\* an except block that marks the analyzer as solved
ModesFailedSolved(analyzer, error) ==
    [analyzer EXCEPT !.solved = TRUE,
                     !.results = [eigenvalues |-> <<>>, eigenvectors |-> <<>>,
                                  frequencies |-> <<>>, periods |-> <<>>,
                                  status |-> "failed", error |-> error,
                                  num_modes |-> 0]]

\* the analyzer after the except block of solve
ModesFailed(analyzer, error) ==
    [analyzer EXCEPT !.results = [eigenvalues |-> <<>>, eigenvectors |-> <<>>,
                                  frequencies |-> <<>>, periods |-> <<>>,
                                  status |-> "failed", error |-> error,
                                  num_modes |-> 0]]

\* the analyzers ModalAnalyzer.solve(num_modes, shift) can leave behind
modal_solve(analyzer, num_modes, shift, pairs) ==
    UNION {IF returned.raised THEN {ModesFailed(started, "eigsh failed")}
           ELSE {ModesStored(started, returned, sort_indices) :
                    sort_indices \in argsort(returned.eigenvalues)} :
           <<started, returned>> \in
               UNION {{<<s, r>> : r \in eigsh(s.K, s.num_modes, s.M, s.shift, pairs)} :
                        s \in {[analyzer EXCEPT
                                  !.num_modes = Min({num_modes, Dim(analyzer.K) - 1}),
                                  !.shift = shift]}}}

\* "for i in range(self.num_modes)", and whether the loop reads a column the
\* stored arrays do not have
ModeRange(analyzer) == 0..(analyzer.num_modes - 1)
ModesMissing(analyzer) == analyzer.num_modes > Dim(analyzer.eigenvectors)

\* ModalAnalyzer.get_mode_shape(mode_number, node_indices) for node_indices = []
get_mode_shape(analyzer, mode_number) ==
    IF ~analyzer.solved THEN ValueError("Modal analysis not solved yet")
    ELSE IF mode_number >= analyzer.num_modes THEN ValueError("Mode not available")
    ELSE IF mode_number \notin DOMAIN analyzer.eigenvectors THEN IndexError
    ELSE [mode_shape |-> <<>>]

\* np.zeros(n) with influence_vector[2::6] = 1.0
InfluenceVector(n) == [i \in 0..(n - 1) |-> IF i % dof_per_node = 2 THEN One ELSE Zero]

\* the limit "abs(denominator) > 1e-12"
ParticipationTolerance == Num(1, 1, -12)

\* a @ b for two vectors
Inner(a, b) == SumTo([i \in DOMAIN a |-> Mul(a[i], b[i])], Dim(a))

\* numerator / denominator of one mode, 0 when the denominator is within the limit
ParticipationFactor(M, mode, influence_vector) ==
    Only({IF Less(ParticipationTolerance, NAbs(denominator))
          THEN Div(numerator, denominator) ELSE Zero :
          numerator \in {Inner(mode, MatVec(M, influence_vector))},
          denominator \in {ModalMass(M, mode)}})

\* participation_factors[i] ** 2 * denominator, 0 when the factor was not set
EffectiveMass(M, mode, influence_vector) ==
    Only({Mul(Mul(factor, factor), ModalMass(M, mode)) :
          factor \in {ParticipationFactor(M, mode, influence_vector)}})

\* the dict of get_modal_participation_factors for the influence vector given
ParticipationData(analyzer, influence_vector) ==
    Only({[participation_factors |->
              [i \in ModeRange(analyzer) |->
                  ParticipationFactor(analyzer.M, analyzer.eigenvectors[i], influence_vector)],
           effective_masses |-> effective_masses,
           mass_participation_ratio |->
              [i \in ModeRange(analyzer) |->
                  IF Less(Zero, total_mass) THEN Div(effective_masses[i], total_mass)
                  ELSE Zero],
           cumulative_mass_ratio |->
              [i \in ModeRange(analyzer) |->
                  IF Less(Zero, total_mass)
                  THEN Div(SumTo(effective_masses, i + 1), total_mass) ELSE Zero],
           total_mass |-> total_mass] :
          effective_masses \in
              {[i \in ModeRange(analyzer) |->
                  EffectiveMass(analyzer.M, analyzer.eigenvectors[i], influence_vector)]},
          total_mass \in {Inner(influence_vector, MatVec(analyzer.M, influence_vector))}})

\* ModalAnalyzer.get_modal_participation_factors()
get_modal_participation_factors(analyzer) ==
    IF ~analyzer.solved THEN ValueError("Modal analysis not solved yet")
    ELSE IF ModesMissing(analyzer) THEN IndexError
    ELSE ParticipationData(analyzer, InfluenceVector(Dim(analyzer.M)))

\* np.interp(x, xp, fp) for increasing xp, given as sequences: the end values
\* outside the range (for an infinite x too), nan for nan
Interp(x, xp, fp) ==
    IF x = NaN THEN NaN
    ELSE IF x = Infinity THEN fp[Len(fp)]
    ELSE IF Leq(x, xp[1]) THEN fp[1]
    ELSE IF Leq(xp[Len(xp)], x) THEN fp[Len(fp)]
    ELSE Only({Add(fp[n], Div(Mul(Sub(x, xp[n]), Sub(fp[n + 1], fp[n])),
                              Sub(xp[n + 1], xp[n]))) :
               n \in {CHOOSE k \in 1..(Len(xp) - 1) : Leq(xp[k], x) /\ Less(x, xp[k + 1])}})

\* a * b and the sum of the entries of terms, nan if a nan is involved
FMul(a, b) == IF a = NaN \/ b = NaN THEN NaN ELSE Mul(a, b)
FSum(terms) ==
    IF \E t \in DOMAIN terms : terms[t] = NaN THEN NaN
    ELSE SumOver(terms, DOMAIN terms)

\* column i of modal_displacements: participation * mode * Sa / omega_i**2
\* "if omega_i > 0", zeros otherwise.  omega_i is 2 pi times the frequency,
\* the number the model holds as the frequency
ModalDisplacement(analyzer, participation_factors, spectral_accelerations, i) ==
    IF IsFinite(analyzer.frequencies[i]) /\ Less(Zero, analyzer.frequencies[i])
    THEN [d \in DOMAIN analyzer.M |->
             Div(Mul(Mul(participation_factors[i], analyzer.eigenvectors[i][d]),
                     spectral_accelerations[i]),
                 Mul(analyzer.frequencies[i], analyzer.frequencies[i]))]
    ELSE ZeroVec(Dim(analyzer.M))

\* np.sum(modal_displacements**2, axis=1) at DOF d
SumOfSquares(modal_displacements, d) ==
    FSum([i \in DOMAIN modal_displacements |->
             Mul(modal_displacements[i][d], modal_displacements[i][d])])

\* the correlation coefficient of _cqc_combination for the frequencies of
\* modes j and k.  freq_ratio = fk / fj is inf or nan for fj = 0 (numpy
\* divides by zero without raising) and the coefficient is then inf / inf
\* or nan: nan
correlation_coeff(fj, fk, damping_ratio) ==
    IF ~IsFinite(fj) \/ ~IsFinite(fk) THEN NaN
    ELSE IF IsZero(fj) THEN NaN
    ELSE Only({Div(Mul(Mul(Mul(FromInt(8), Mul(damping_ratio, damping_ratio)),
                           Add(One, freq_ratio)),
                       Mul(freq_ratio, Sqrt(freq_ratio))),
                   Add(Mul(Sub(One, Mul(freq_ratio, freq_ratio)),
                           Sub(One, Mul(freq_ratio, freq_ratio))),
                       Mul(Mul(Mul(FromInt(4), Mul(damping_ratio, damping_ratio)), freq_ratio),
                           Mul(Add(One, freq_ratio), Add(One, freq_ratio))))) :
               freq_ratio \in {Div(fk, fj)}})

\* abs(total) of _cqc_combination at DOF d
cqc_total(analyzer, modal_displacements, damping_ratio, d) ==
    FAbs(FSum([jk \in (DOMAIN modal_displacements) \X (DOMAIN modal_displacements) |->
               FMul(Mul(modal_displacements[jk[1]][d], modal_displacements[jk[2]][d]),
                    IF jk[1] = jk[2] THEN One
                    ELSE correlation_coeff(analyzer.frequencies[jk[1]],
                                           analyzer.frequencies[jk[2]], damping_ratio))]))

\* the combined displacements, each held as its square (the sum of squares
\* of SRSS, abs(total) of CQC): zero, nan and equality are those of the floats
CombinedDisplacements(analyzer, modal_displacements, damping_ratio, combination_method) ==
    [d \in DOMAIN analyzer.M |->
        IF combination_method = "SRSS" THEN SumOfSquares(modal_displacements, d)
        ELSE cqc_total(analyzer, modal_displacements, damping_ratio, d)]

\* the dict returned by calculate_response_spectrum_analysis
ModalResponses(analyzer, spectrum_values, spectrum_periods, damping_ratio, combination_method) ==
    Only({[modal_displacements |-> modal_displacements,
           combined_displacements |->
              CombinedDisplacements(analyzer, modal_displacements, damping_ratio,
                                    combination_method),
           spectral_accelerations |-> spectral_accelerations,
           participation_factors |-> participation_factors,
           combination_method |-> combination_method,
           damping_ratio |-> damping_ratio] :
          <<spectral_accelerations, participation_factors, modal_displacements>> \in
             {<<s, p, [i \in ModeRange(analyzer) |-> ModalDisplacement(analyzer, p, s, i)]>> :
                 s \in {[i \in DOMAIN analyzer.periods |->
                            Interp(analyzer.periods[i], spectrum_periods, spectrum_values)]},
                 p \in {ParticipationData(analyzer,
                            InfluenceVector(Dim(analyzer.M))).participation_factors}}})

CombinationMethods == {"SRSS", "CQC"}

\* ModalAnalyzer.calculate_response_spectrum_analysis(spectrum_values,
\* spectrum_periods, damping_ratio, combination_method)
calculate_response_spectrum_analysis(analyzer, spectrum_values, spectrum_periods, damping_ratio, combination_method) ==
    IF ~analyzer.solved THEN ValueError("Modal analysis not solved yet")
    ELSE IF ModesMissing(analyzer) THEN IndexError
    ELSE IF combination_method \notin CombinationMethods
    THEN ValueError("Unknown combination method")
    ELSE ModalResponses(analyzer, spectrum_values, spectrum_periods, damping_ratio,
                        combination_method)

(***************************************************************************)
(* backend/core/model.py and backend/solver/analysis_engine.py             *)
(*                                                                         *)
(* model is the StructuralModel behind the engine:                         *)
(*   nodes                seq of [id, x, y, z], in the order the node      *)
(*                        manager returns them                             *)
(*   elements             seq of element records                           *)
(*   materials, sections  functions from id to record                      *)
(*   boundary_conditions  function from node id to its boundary condition  *)
(*   loads                seq of load records                              *)
(*   load_combinations    seq of [name, factors]                           *)
(***************************************************************************)
NodeIds(m) == {m.nodes[n].id : n \in DOMAIN m.nodes}

\* the nodes that carry a boundary condition
SupportedNodes(m) == NodeIds(m) \cap DOMAIN m.boundary_conditions

\* sum(sum(bc.get_restraint_vector()) for bc in boundary_conditions)
TotalRestraints(m) ==
    Cardinality({bi \in SupportedNodes(m) \X (1..dof_per_node) :
                    m.boundary_conditions[bi[1]].restrain[bi[2]]})

ConnectedNodes(m) ==
    {m.elements[n].start_node_id : n \in DOMAIN m.elements}
        \cup {m.elements[n].end_node_id : n \in DOMAIN m.elements}

\* the error messages validate_model collects
ValidationErrors(m) ==
    (IF m.nodes = <<>> THEN {"Model has no nodes"} ELSE {})
    \cup (IF m.elements = <<>> THEN {"Model has no elements"} ELSE {})
    \cup (IF DOMAIN m.materials = {} THEN {"Model has no materials"} ELSE {})
    \cup (IF DOMAIN m.sections = {} THEN {"Model has no sections"} ELSE {})
    \cup (IF \E n \in DOMAIN m.elements :
                m.elements[n].start_node_id \notin NodeIds(m)
                    \/ m.elements[n].end_node_id \notin NodeIds(m)
          THEN {"invalid node connectivity"} ELSE {})
    \cup (IF \E n \in DOMAIN m.elements :
                m.elements[n].start_node_id = m.elements[n].end_node_id
          THEN {"same start and end nodes"} ELSE {})
    \cup (IF SupportedNodes(m) = {}
          THEN {"Model has no boundary conditions (supports)"} ELSE {})
    \cup (IF TotalRestraints(m) < 6
          THEN {"Structure appears to be unstable (insufficient restraints)"} ELSE {})
    \cup (IF m.loads = <<>> THEN {"Model has no loads defined"} ELSE {})
    \cup (IF \E n \in DOMAIN m.elements : ~TruthyId(m.elements[n].material_id)
          THEN {"no material assigned"} ELSE {})
    \cup (IF \E n \in DOMAIN m.elements : ~TruthyId(m.elements[n].section_id)
          THEN {"no section assigned"} ELSE {})
    \cup (IF NodeIds(m) \ ConnectedNodes(m) # {} THEN {"disconnected nodes"} ELSE {})

validate_model(m) == ValidationErrors(m) = {}

\* the boundary conditions collected node by node, in the node manager's order
RECURSIVE CollectBoundaryConditions(_, _)
CollectBoundaryConditions(m, n) ==
    IF n > Len(m.nodes) THEN <<>>
    ELSE (IF m.nodes[n].id \in DOMAIN m.boundary_conditions
          THEN <<m.boundary_conditions[m.nodes[n].id]>> ELSE <<>>)
         \o CollectBoundaryConditions(m, n + 1)

\* the coordinates of the node with the given id
NodeCoordinates(m, id) ==
    Only({<<node.x, node.y, node.z>> :
          node \in {m.nodes[CHOOSE n \in DOMAIN m.nodes : m.nodes[n].id = id]}})

\* MatrixAssembler(nodes, elements, materials, sections, boundary_conditions)
\* on the components of the model m
AssemblerOf(m) ==
    MatrixAssembler([id \in NodeIds(m) |-> NodeCoordinates(m, id)],
                    m.elements, m.materials, m.sections,
                    CollectBoundaryConditions(m, 1))

\* the assembler prepare_analysis creates, or None when validation fails
prepare_analysis(m) == IF ~validate_model(m) THEN None ELSE AssemblerOf(m)

\* "if load_combination_name:" is false for None and for the empty string;
\* NoName stands for both
NoName == ""

\* the positions of the combinations called load_combination_name
Named(m, load_combination_name) ==
    {n \in DOMAIN m.load_combinations : m.load_combinations[n].name = load_combination_name}

\* the factors of the first combination called load_combination_name, or None
LoadFactors(m, load_combination_name) ==
    IF load_combination_name = NoName \/ Named(m, load_combination_name) = {} THEN None
    ELSE m.load_combinations[Min(Named(m, load_combination_name))].factors

\* node indices that have a boundary condition
RestrainedIndices(asm) ==
    {node_to_index(asm, asm.boundary_conditions[n].node_id) :
        n \in DOMAIN asm.boundary_conditions}

\* |u| at every DOF of direction k
Component(displacements, k) ==
    {NAbs(displacements[d]) : d \in {e \in DOMAIN displacements : e % dof_per_node = k}}

\* max |u| per direction ux, uy, uz, rx, ry, rz over all nodes
get_maximum_displacements(solver) ==
    IF ~solver.solved THEN NotSolved
    ELSE [k \in 1..dof_per_node |->
        CHOOSE a \in Component(solver.displacements, k - 1) :
            \A b \in Component(solver.displacements, k - 1) : Leq(b, a)]

\* the complete_results of a converged linear static run
CompleteResults(m, asm, solver, load_combination_name) ==
    [status |-> "completed",
     analysis_type |-> "linear_static",
     load_combination |-> IF load_combination_name = NoName THEN "unit"
                          ELSE load_combination_name,
     nodal_displacements |->
        get_nodal_displacements(solver, 0..(Cardinality(DOMAIN asm.nodes) - 1)),
     element_forces |-> calculate_element_forces(solver, asm, m.elements),
     reaction_forces |-> get_reaction_forces(solver, RestrainedIndices(asm)),
     max_displacements |-> get_maximum_displacements(solver),
     equilibrium_check |-> check_equilibrium(solver, solver.F)]

FailedResult(error) == [status |-> "failed", error |-> error]

\* the outcome of ModalAnalyzer.solve is left open: eigsh either returns the
\* requested modes or raises
ModalAnalyzer(stiffness_matrix, mass_matrix, num_modes, converged) ==
    [K |-> stiffness_matrix, M |-> mass_matrix,
     num_modes |-> IF num_modes < Dim(stiffness_matrix) - 1
                   THEN num_modes ELSE Dim(stiffness_matrix) - 1,
     solved |-> converged,
     results |-> [status |-> IF converged THEN "converged" ELSE "failed"]]

\* bound on the number of engine calls in a behaviour
MaxCalls == 1

\* the fields of the engine a run reads and assigns
Engine ==
    [matrix_assembler |-> matrix_assembler, linear_solver |-> linear_solver,
     modal_analyzer |-> modal_analyzer, analysis_results |-> analysis_results]

\* "if not self.matrix_assembler: self.prepare_analysis()": the assembler a
\* run works with, or None when the preparation fails
Prepared(self) ==
    IF self.matrix_assembler = None THEN prepare_analysis(model)
    ELSE self.matrix_assembler

\* self.analysis_results[analysis_type] = complete_results
Stored(results, analysis_type, complete_results) ==
    [t \in DOMAIN results \cup {analysis_type} |->
        IF t = analysis_type THEN complete_results ELSE results[t]]

\* the entry of the results dict, None when there is none
StoredResult(results, analysis_type) ==
    IF analysis_type \in DOMAIN results THEN results[analysis_type] ELSE None

\* the engine a run leaves and the dict it returns
Outcome(self, result) == [self |-> self, result |-> result]

\* the engine and the returned dict of an outcome become the next state
Returns(outcome) ==
    /\ matrix_assembler' = outcome.self.matrix_assembler
    /\ linear_solver' = outcome.self.linear_solver
    /\ modal_analyzer' = outcome.self.modal_analyzer
    /\ analysis_results' = outcome.self.analysis_results
    /\ run_result' = outcome.result

\* the end of a linear static run whose load vector was assembled
SolveAndStore(self, asm, K_global, F_global, load_combination_name) ==
    {IF solver.results.status = "converged"
     THEN Only({Outcome([self EXCEPT
                            !.matrix_assembler = [asm EXCEPT
                                !.global_stiffness = K_global, !.global_load = F_global],
                            !.linear_solver = solver,
                            !.analysis_results = Stored(@, "linear_static", complete_results)],
                        complete_results) :
                complete_results \in
                    {CompleteResults(model, asm, solver, load_combination_name)}})
     ELSE Outcome([self EXCEPT
                      !.matrix_assembler = [asm EXCEPT
                          !.global_stiffness = K_global, !.global_load = F_global],
                      !.linear_solver = solver],
                  solver.results) :
        solver \in solve(LinearSolver(K_global, F_global))}

\* the outcomes of run_linear_static_analysis(load_combination_name) on the
\* engine self
LinearStaticOutcomes(self, load_combination_name) ==
    UNION {IF asm = None
           THEN {Outcome(self, FailedResult("Model preparation failed"))}
           ELSE UNION {IF F_global = Raised
                       THEN {Outcome([self EXCEPT !.matrix_assembler =
                                         [asm EXCEPT !.global_stiffness = K_global]],
                                     FailedResult("KeyError"))}
                       ELSE SolveAndStore(self, asm, K_global, F_global,
                                          load_combination_name) :
                       <<K_global, F_global>> \in
                           {<<assemble_global_stiffness_matrix(asm),
                              assemble_load_vector(asm, model.loads,
                                  LoadFactors(model, load_combination_name))>>}} :
           asm \in {Prepared(self)}}

\* AnalysisEngine.run_linear_static_analysis(load_combination_name)
run_linear_static_analysis(load_combination_name) ==
    /\ UNCHANGED model
    /\ \E outcome \in LinearStaticOutcomes(Engine, load_combination_name) :
          Returns(outcome)

\* the loop of run_all_load_combinations from combination n on: the engine
\* after it, with all_results, the result of each combination by name
RECURSIVE CombinationRuns(_, _, _)
CombinationRuns(self, all_results, n) ==
    IF n > Len(model.load_combinations) THEN {Outcome(self, all_results)}
    ELSE UNION {CombinationRuns(
                    outcome.self,
                    Stored(all_results, model.load_combinations[n].name, outcome.result),
                    n + 1) :
                outcome \in LinearStaticOutcomes(self, model.load_combinations[n].name)}

\* AnalysisEngine.run_all_load_combinations()
run_all_load_combinations ==
    /\ UNCHANGED model
    /\ IF model.load_combinations = <<>>
       THEN Returns(Outcome(Engine, FailedResult("No load combinations defined")))
       ELSE \E outcome \in CombinationRuns(Engine, <<>>, 1) :
               Returns(Outcome(outcome.self,
                               [status |-> "completed",
                                analysis_type |-> "multiple_load_combinations",
                                combinations |-> outcome.result,
                                num_combinations |-> Len(model.load_combinations)]))

\* the end of a modal run: the analyzer is built on K and M as assembled
AnalyzeAndStore(self, asm, K_global, M_global, num_modes) ==
    {IF converged
     THEN Only({Outcome([self EXCEPT
                            !.matrix_assembler = [asm EXCEPT
                                !.global_stiffness = K_global, !.global_mass = M_global],
                            !.modal_analyzer =
                                ModalAnalyzer(K_global, M_global, num_modes, TRUE),
                            !.analysis_results = Stored(@, "modal", complete_results)],
                        complete_results) :
                complete_results \in {[status |-> "completed", analysis_type |-> "modal",
                                       num_modes |-> num_modes]}})
     ELSE Outcome([self EXCEPT
                      !.matrix_assembler = [asm EXCEPT
                          !.global_stiffness = K_global, !.global_mass = M_global],
                      !.modal_analyzer =
                          ModalAnalyzer(K_global, M_global, num_modes, FALSE)],
                  [status |-> "failed"]) :
        converged \in BOOLEAN}

\* the outcomes of run_modal_analysis(num_modes) on the engine self
ModalOutcomes(self, num_modes) ==
    UNION {IF asm = None
           THEN {Outcome(self, FailedResult("Model preparation failed"))}
           ELSE AnalyzeAndStore(self, asm, assemble_global_stiffness_matrix(asm),
                                assemble_global_mass_matrix(asm), num_modes) :
           asm \in {Prepared(self)}}

\* AnalysisEngine.run_modal_analysis(num_modes)
run_modal_analysis(num_modes) ==
    /\ UNCHANGED model
    /\ \E outcome \in ModalOutcomes(Engine, num_modes) : Returns(outcome)

\* the default num_modes
DefaultModes == 10

\* the exception calculate_response_spectrum_analysis raises on the analyzer
\* of an engine, None when it returns
SpectrumUnknownMethod(analyzer, combination_method) ==
    IF combination_method \notin CombinationMethods
    THEN ValueError("Unknown combination method") ELSE None

SpectrumRaised(analyzer, combination_method) ==
    IF ~analyzer.solved THEN ValueError("Modal analysis not solved yet")
    ELSE SpectrumUnknownMethod(analyzer, combination_method)

\* run_response_spectrum_analysis once self.modal_analyzer is set
SpectrumOutcome(self, damping_ratio, combination_method) ==
    Only({IF raised # None THEN Outcome(self, FailedResult(raised.message))
          ELSE Only({Outcome([self EXCEPT !.analysis_results =
                                 Stored(@, "response_spectrum", complete_results)],
                             complete_results) :
                     complete_results \in
                        {[status |-> "completed", analysis_type |-> "response_spectrum",
                          damping_ratio |-> damping_ratio,
                          combination_method |-> combination_method]}}) :
          raised \in {SpectrumRaised(self.modal_analyzer, combination_method)}})

\* the outcomes of run_response_spectrum_analysis on the engine self
ResponseSpectrumOutcomes(self, damping_ratio, combination_method) ==
    IF self.modal_analyzer = None
    THEN {IF modal.result.status # "completed" THEN modal
          ELSE SpectrumOutcome(modal.self, damping_ratio, combination_method) :
          modal \in ModalOutcomes(self, DefaultModes)}
    ELSE {SpectrumOutcome(self, damping_ratio, combination_method)}

\* AnalysisEngine.run_response_spectrum_analysis(spectrum_data, damping_ratio,
\* combination_method)
run_response_spectrum_analysis(damping_ratio, combination_method) ==
    /\ UNCHANGED model
    /\ \E outcome \in ResponseSpectrumOutcomes(Engine, damping_ratio, combination_method) :
          Returns(outcome)

(***************************************************************************)
(* The models analysed: the two-node beam of the end-to-end scenarios,     *)
(* varied in node ids, length, loads, supports, releases and units.        *)
(***************************************************************************)
\* bound on the element length (whole metres)
MaxLength == 2

\* properties in the mm-based units the kernel converts from, the same member
\* in SI units as the scenarios list it, and a deep section in mm-based units
Material(units) ==
    [elastic_modulus |-> IF units = "SI" THEN Num(2, 1, 11) ELSE Num(2, 1, 8),
     poisson_ratio |-> Num(3, 1, -1), density |-> Num(785, 1, 1)]
Section(units) ==
    IF units = "SI"
    THEN [area |-> Num(1, 1, -4), moment_of_inertia_y |-> Num(1, 1, -8),
          moment_of_inertia_z |-> Num(1, 1, -8), torsional_constant |-> Num(2, 1, -8)]
    ELSE IF units = "deep"
    THEN [area |-> Num(1, 1, 2), moment_of_inertia_y |-> Num(1, 1, 10),
          moment_of_inertia_z |-> Num(1, 1, 10), torsional_constant |-> Num(2, 1, 10)]
    ELSE [area |-> Num(1, 1, 2), moment_of_inertia_y |-> Num(1, 1, 4),
          moment_of_inertia_z |-> Num(1, 1, 4), torsional_constant |-> Num(2, 1, 4)]

NoRelease == None
StartMz == [start |-> {"moment_z"}, end |-> {}]
StartMyAxial == [start |-> {"moment_y", "axial"}, end |-> {}]
Brace == [start |-> {"moment_y", "moment_z"}, end |-> {"moment_y", "moment_z"}]
ReleaseOptions == {NoRelease, StartMz, StartMyAxial, Brace}

NoSprings == <<None, None, None, None, None, None>>
Fixed(node_id) ==
    [node_id |-> node_id, restrain |-> <<TRUE, TRUE, TRUE, TRUE, TRUE, TRUE>>,
     spring |-> NoSprings]
\* fully fixed, with spring constants also given on two restrained DOFs
FixedSprung(node_id) ==
    [node_id |-> node_id, restrain |-> <<TRUE, TRUE, TRUE, TRUE, TRUE, TRUE>>,
     spring |-> <<Num(1, 1, 12), None, None, None, None, Num(5, 1, 11)>>]
Pinned(node_id) ==
    [node_id |-> node_id, restrain |-> <<TRUE, TRUE, TRUE, FALSE, FALSE, FALSE>>,
     spring |-> NoSprings]
\* uz and rx restrained; springs on ux, uy (free), uz (restrained), rz (0.0)
RollerSprung(node_id) ==
    [node_id |-> node_id, restrain |-> <<FALSE, FALSE, TRUE, TRUE, FALSE, FALSE>>,
     spring |-> <<Num(1, 1, 3), Num(5, 1, 3), Num(1, 1, 12), None, None, Zero>>]
\* uy, uz and rx restrained, no springs
Roller(node_id) ==
    [node_id |-> node_id, restrain |-> <<FALSE, TRUE, TRUE, TRUE, FALSE, FALSE>>,
     spring |-> NoSprings]

BoundaryOptions(n1, n2) ==
    {[b \in {n1} |-> Fixed(n1)],
     [b \in {n1, n2} |-> IF b = n1 THEN FixedSprung(n1) ELSE RollerSprung(n2)],
     [b \in {n1, n2} |-> IF b = n1 THEN Pinned(n1) ELSE Roller(n2)],
     [b \in {n1} |-> Pinned(n1)]}

PointLoad(node_id, load_case, force, moment) ==
    [load_case |-> load_case, node_id |-> node_id, element_id |-> NoId,
     force |-> force, moment |-> moment, start_distance |-> None, end_distance |-> None]
DistributedLoad(element_id, load_case, force) ==
    [load_case |-> load_case, node_id |-> NoId, element_id |-> element_id,
     force |-> force, moment |-> <<Zero, Zero, Zero>>,
     start_distance |-> None, end_distance |-> None]

kN == Num(1, 1, 3)
NoMoment == <<Zero, Zero, Zero>>
LoadOptions(n1, n2) ==
    {<<PointLoad(n2, "DL", <<kN, Zero, Zero>>, NoMoment)>>,
     <<PointLoad(n2, "DL", <<Zero, kN, Zero>>, NoMoment)>>,
     <<PointLoad(n2, "DL", <<Zero, Zero, kN>>, NoMoment),
       PointLoad(n2, "LL", <<Num(5, 1, 2), Zero, Zero>>, <<Zero, Zero, Num(2, 1, 2)>>)>>,
     <<PointLoad(n1, "LL", <<kN, Zero, Zero>>, NoMoment),
       PointLoad(n2, "DL", <<Zero, kN, Zero>>, NoMoment)>>,
     <<>>}

\* one combination factoring only DL, one whose factor mapping is empty
LoadCombinations ==
    <<[name |-> "ULS", factors |-> [items |-> [c \in {"DL"} |-> Num(12, 1, -1)]]],
      [name |-> "EMPTY", factors |-> [items |-> [c \in {} |-> Zero]]]>>

\* the names a run is requested with; "ABSENT" names no combination
CombinationNames == {NoName, "ULS", "EMPTY", "ABSENT"}

\* a node of the node manager
Node(id, x) == [id |-> id, x |-> x, y |-> Zero, z |-> Zero]

\* the beam from node base at the origin to node base + 1 at x = length
BeamOfLength(base, length, units, releases, reversed, bcs, loads) ==
    [nodes |-> IF reversed THEN <<Node(base + 1, length), Node(base, Zero)>>
               ELSE <<Node(base, Zero), Node(base + 1, length)>>,
     elements |-> <<[id |-> 1, start_node_id |-> base, end_node_id |-> base + 1,
                     material_id |-> 1, section_id |-> 1, orientation_angle |-> Zero,
                     releases |-> releases]>>,
     materials |-> [i \in {1} |-> Material(units)],
     sections |-> [i \in {1} |-> Section(units)],
     boundary_conditions |-> bcs,
     loads |-> loads,
     load_combinations |-> LoadCombinations]

\* the beam of a whole number of metres
Beam(base, length, units, releases, reversed, bcs, loads) ==
    BeamOfLength(base, FromInt(length), units, releases, reversed, bcs, loads)

\* the cantilever of scenarios 1 and 2 under every load set, for both node
\* numberings and every length
LoadFamily ==
    {Beam(base, length, "mm", NoRelease, FALSE, [b \in {base} |-> Fixed(base)], loads) :
        <<base, length, loads>> \in
            UNION {{<<b, l, ld>> : ld \in LoadOptions(b, b + 1)} :
                        <<b, l>> \in {0, 1} \X (1..MaxLength)}}

\* the transversely loaded beam under every support set, release set and node order
SupportFamily ==
    {Beam(1, 1, "mm", releases, reversed, bcs,
          <<PointLoad(2, "DL", <<Zero, kN, Zero>>, NoMoment)>>) :
        <<releases, reversed, bcs>> \in ReleaseOptions \X BOOLEAN \X BoundaryOptions(1, 2)}

\* scenarios 1, 2 and 6 with the SI values as listed
UnitsFamily ==
    {Beam(1, 1, "SI", releases, FALSE, [b \in {1} |-> Fixed(1)], <<load>>) :
        <<releases, load>> \in {NoRelease, StartMz}
            \X {PointLoad(2, "DL", <<kN, Zero, Zero>>, NoMoment),
                PointLoad(2, "DL", <<Zero, kN, Zero>>, NoMoment)}}

\* the deep cantilever under a uniformly distributed load
DistributedFamily ==
    {Beam(base, 1, "deep", NoRelease, FALSE, [b \in {base} |-> Fixed(base)],
          <<DistributedLoad(1, "DL", <<Zero, Neg(kN), Zero>>)>>) : base \in {0, 1}}

\* the braced cantilever whose two nodes, of distinct ids, lie 1e-10 m
\* apart; the support is at its end node
CoincidentFamily ==
    {BeamOfLength(base, Num(1, 1, -10), "mm", Brace, FALSE,
                  [b \in {base + 1} |-> Fixed(base + 1)],
                  <<PointLoad(base, "DL", <<kN, Zero, Zero>>, NoMoment)>>) :
        base \in {0, 1}}

\* the cantilever of scenario 1 without load combinations
BareFamily ==
    {[Beam(1, 1, "mm", NoRelease, FALSE, [b \in {1} |-> Fixed(1)],
           <<PointLoad(2, "DL", <<kN, Zero, Zero>>, NoMoment)>>)
         EXCEPT !.load_combinations = <<>>]}

Models ==
    LoadFamily \cup SupportFamily \cup UnitsFamily \cup DistributedFamily
        \cup CoincidentFamily \cup BareFamily

Init ==
    /\ model \in Models
    /\ matrix_assembler = None
    /\ linear_solver = None
    /\ modal_analyzer = None
    /\ analysis_results = <<>>
    /\ run_result = None
    /\ calls = 0

RunLinearStatic ==
    /\ calls < MaxCalls
    /\ calls' = calls + 1
    /\ \E name \in CombinationNames : run_linear_static_analysis(name)
RunModal ==
    /\ calls < MaxCalls
    /\ calls' = calls + 1
    /\ run_modal_analysis(DefaultModes)
RunAllLoadCombinations ==
    /\ calls < MaxCalls
    /\ calls' = calls + 1
    /\ run_all_load_combinations

Next == RunLinearStatic \/ RunModal \/ RunAllLoadCombinations

Spec == Init /\ [][Next]_vars

(***************************************************************************)
(* The assembler on its own: a MatrixAssembler built on a frame of three    *)
(* nodes and two elements, and its three assembly methods.                 *)
(***************************************************************************)
\* three nodes in the order the caller lists them (ids need not be sorted or
\* contiguous); element 1 runs from the first to the second node, element 2
\* joins the second and the third, in either direction
Frame(ids, third, flipped, bcs, loads) ==
    [nodes |-> <<[id |-> ids[1], x |-> Zero, y |-> Zero, z |-> Zero],
                 [id |-> ids[2], x |-> One, y |-> Zero, z |-> Zero],
                 [id |-> ids[3], x |-> FromInt(third[1]), y |-> FromInt(third[2]),
                  z |-> FromInt(third[3])]>>,
     elements |-> <<[id |-> 1, start_node_id |-> ids[1], end_node_id |-> ids[2],
                     material_id |-> 1, section_id |-> 1, orientation_angle |-> Zero,
                     releases |-> NoRelease],
                    [id |-> 2,
                     start_node_id |-> IF flipped THEN ids[3] ELSE ids[2],
                     end_node_id |-> IF flipped THEN ids[2] ELSE ids[3],
                     material_id |-> 1, section_id |-> 1, orientation_angle |-> Zero,
                     releases |-> NoRelease]>>,
     materials |-> [i \in {1} |-> Material("mm")],
     sections |-> [i \in {1} |-> Section("mm")],
     boundary_conditions |-> bcs,
     loads |-> loads,
     load_combinations |-> LoadCombinations]

\* node id triples: rotated, descending with gaps, and with id 0
FrameIds == {<<3, 1, 2>>, <<9, 5, 2>>, <<0, 7, 4>>}
\* the third node: in line with element 1, beside it, above it
ThirdNodes == {<<3, 0, 0>>, <<1, 2, 0>>, <<1, 0, 1>>}

\* no support, a fixed first node, a pinned first node with a sprung roller
FrameSupports(ids) ==
    {[b \in {} |-> None],
     [b \in {ids[1]} |-> Fixed(ids[1])],
     [b \in {ids[1], ids[3]} |-> IF b = ids[1] THEN Pinned(ids[1])
                                 ELSE RollerSprung(ids[3])]}

\* a distributed load over part of the element
PartialLoad(element_id, load_case, force, start_distance, end_distance) ==
    [DistributedLoad(element_id, load_case, force)
        EXCEPT !.start_distance = start_distance, !.end_distance = end_distance]

UniformLoads == {<<Zero, Neg(kN), Zero>>, <<Num(2, 1, 2), Num(3, 1, 2), Num(-6, 1, 2)>>}
\* start_distance and end_distance: both absent, an explicit 0.0 start, and
\* the span from 0.5 to 1
LoadedSpans == {<<None, None>>, <<Zero, None>>, <<Num(5, 1, -1), One>>}

\* frames under point loads: every numbering and shape without supports, and
\* one numbering under every support set
PointLoadedFrames ==
    {Frame(ids, third, flipped, bcs,
           <<PointLoad(ids[2], "DL", <<Zero, kN, Zero>>, NoMoment),
             PointLoad(ids[3], "LL", <<kN, Zero, Zero>>, <<Zero, Zero, Num(2, 1, 2)>>)>>) :
        <<ids, third, flipped, bcs>> \in
            UNION {{<<i, t, f, b>> :
                        b \in IF i = <<9, 5, 2>> THEN FrameSupports(i)
                              ELSE {[n \in {} |-> None]}} :
                        <<i, t, f>> \in FrameIds \X ThirdNodes \X BOOLEAN}}

\* frames under one distributed load on either element
DistributedFrames ==
    {Frame(<<3, 1, 2>>, third, FALSE, [b \in {3} |-> Fixed(3)],
           <<PartialLoad(element_id, "DL", w, span[1], span[2])>>) :
        <<third, element_id, w, span>> \in ThirdNodes \X {1, 2} \X UniformLoads \X LoadedSpans}

Frames == PointLoadedFrames \cup DistributedFrames

AssemblerInit ==
    /\ model \in Frames
    /\ matrix_assembler = AssemblerOf(model)
    /\ linear_solver = None
    /\ modal_analyzer = None
    /\ analysis_results = <<>>
    /\ run_result = None
    /\ calls = 0

\* matrix_assembler.assemble_global_stiffness_matrix()
AssembleStiffness ==
    /\ calls < MaxCalls
    /\ calls' = calls + 1
    /\ matrix_assembler' =
          [matrix_assembler EXCEPT
              !.global_stiffness = assemble_global_stiffness_matrix(matrix_assembler)]
    /\ UNCHANGED <<model, analysis_results, linear_solver, modal_analyzer, run_result>>

\* matrix_assembler.assemble_global_mass_matrix()
AssembleMass ==
    /\ calls < MaxCalls
    /\ calls' = calls + 1
    /\ matrix_assembler' =
          [matrix_assembler EXCEPT
              !.global_mass = assemble_global_mass_matrix(matrix_assembler)]
    /\ UNCHANGED <<model, analysis_results, linear_solver, modal_analyzer, run_result>>

\* matrix_assembler.assemble_load_vector(loads, factors) with the factors of
\* a named combination, or None
AssembleLoads ==
    /\ calls < MaxCalls
    /\ calls' = calls + 1
    /\ \E name \in CombinationNames :
          \E F_global \in {assemble_load_vector(matrix_assembler, model.loads,
                                                LoadFactors(model, name))} :
              /\ matrix_assembler' = IF F_global = Raised THEN matrix_assembler
                                     ELSE [matrix_assembler EXCEPT !.global_load = F_global]
              /\ run_result' = [load_combination |-> name]
    /\ UNCHANGED <<model, analysis_results, linear_solver, modal_analyzer>>

AssemblerNext == AssembleStiffness \/ AssembleMass \/ AssembleLoads

AssemblerSpec == AssemblerInit /\ [][AssemblerNext]_vars

(***************************************************************************)
(* The solvers on their own: a LinearSolver or a ModalAnalyzer built on     *)
(* small matrices, and their solve methods.                                *)
(***************************************************************************)
\* a square matrix and a vector of floats from whole numbers
Mat(rows) ==
    [i \in 0..(Len(rows) - 1) |-> [j \in 0..(Len(rows) - 1) |-> FromInt(rows[i + 1][j + 1])]]
Vec(entries) == [i \in 0..(Len(entries) - 1) |-> FromInt(entries[i + 1])]

\* K and F of the linear systems: well conditioned (diagonal and coupled), a
\* zero diagonal entry, a singular K, condition numbers far above and just
\* above 1e12, and a load vector longer than K
LinearSystems ==
    {<<Mat(<<<<2, 0>>, <<0, 4>>>>), Vec(<<1, 2>>)>>,
     <<Mat(<<<<2, 1>>, <<1, 2>>>>), Vec(<<3, 3>>)>>,
     <<Mat(<<<<2, 1>>, <<1, 2>>>>), Vec(<<0, 0>>)>>,
     <<Mat(<<<<0, 1>>, <<1, 0>>>>), Vec(<<1, 2>>)>>,
     <<Mat(<<<<1, 1>>, <<1, 1>>>>), Vec(<<1, 2>>)>>,
     <<[Mat(<<<<1, 0>>, <<0, 1>>>>) EXCEPT ![1][1] = Num(1, 1, 14)], Vec(<<1, 2>>)>>,
     <<[Mat(<<<<1, 0>>, <<0, 1>>>>) EXCEPT ![1][1] = Num(15, 1, 11)], Vec(<<1, 2>>)>>,
     <<Mat(<<<<2, 0>>, <<0, 4>>>>), Vec(<<1, 2, 3>>)>>}

\* K and M of the eigenproblems: a positive definite pair, an indefinite K,
\* a singular K, coupled degrees of freedom whose modes have two components
\* of equal size, an M with a zero and a negative diagonal entry, and a
\* problem of size 1
ModalProblems ==
    {<<Mat(<<<<1, 0, 0>>, <<0, 16, 0>>, <<0, 0, 81>>>>),
       Mat(<<<<1, 0, 0>>, <<0, 1, 0>>, <<0, 0, 1>>>>)>>,
     <<Mat(<<<<-16, 0, 0>>, <<0, 1, 0>>, <<0, 0, 81>>>>),
       Mat(<<<<1, 0, 0>>, <<0, 1, 0>>, <<0, 0, 1>>>>)>>,
     <<Mat(<<<<81, 0, 0>>, <<0, 16, 16>>, <<0, 16, 16>>>>),
       Mat(<<<<1, 0, 0>>, <<0, 2, 0>>, <<0, 0, 2>>>>)>>,
     <<Mat(<<<<81, 0, 0>>, <<0, 17, 15>>, <<0, 15, 17>>>>),
       Mat(<<<<1, 0, 0>>, <<0, 2, 0>>, <<0, 0, 2>>>>)>>,
     <<Mat(<<<<1, 0>>, <<0, 4>>>>), Mat(<<<<0, 0>>, <<0, -7>>>>)>>,
     <<Mat(<<<<1>>>>), Mat(<<<<1>>>>)>>}

\* the candidate (eigenvalue, eigenvector) pairs: the eigenpairs of the
\* problems above, each vector also negated or scaled, and a non-finite
\* eigenvalue
EigenPairs ==
    {<<FromInt(lambda), Vec(v)>> :
        <<lambda, v>> \in
           {<<1, <<2, 0, 0>>>>, <<1, <<-2, 0, 0>>>>, <<16, <<0, -3, 0>>>>,
            <<81, <<0, 0, 1>>>>, <<-16, <<1, 0, 0>>>>, <<-16, <<-1, 0, 0>>>>,
            <<1, <<0, 3, 0>>>>, <<0, <<0, 1, -1>>>>, <<0, <<0, -1, 1>>>>,
            <<16, <<0, 1, 1>>>>, <<16, <<0, -1, -1>>>>, <<1, <<0, 1, -1>>>>,
            <<1, <<0, -1, 1>>>>, <<81, <<1, 0, 0>>>>, <<1, <<3, 0>>>>,
            <<4, <<0, -1>>>>}}
    \cup {<<NaN, Vec(<<0, 1>>)>>}

\* the mode counts requested: none, one, and the default
ModeCounts == {0, 1, DefaultModes}

\* the shifts requested: the default and 1.0
Shifts == {Zero, One}

\* bound on the number of solve calls on one solver
MaxSolves == 2

SolverInit ==
    /\ model = None
    /\ matrix_assembler = None
    /\ \/ /\ \E system \in LinearSystems : linear_solver = LinearSolver(system[1], system[2])
          /\ modal_analyzer = None
       \/ /\ linear_solver = None
          /\ \E problem \in ModalProblems :
                modal_analyzer = NewModalAnalyzer(problem[1], problem[2])
    /\ analysis_results = <<>>
    /\ run_result = None
    /\ calls = 0

\* linear_solver.solve()
LinearSolve ==
    /\ calls < MaxSolves
    /\ linear_solver # None
    /\ calls' = calls + 1
    /\ \E solver \in solve(linear_solver) :
          /\ linear_solver' = solver
          /\ run_result' = solver.results
    /\ UNCHANGED <<model, analysis_results, matrix_assembler, modal_analyzer>>

\* modal_analyzer.solve(num_modes, shift)
ModalSolve ==
    /\ calls < MaxSolves
    /\ modal_analyzer # None
    /\ calls' = calls + 1
    /\ \E num_modes \in ModeCounts, shift \in Shifts :
          \E analyzer \in modal_solve(modal_analyzer, num_modes, shift, EigenPairs) :
              /\ modal_analyzer' = analyzer
              /\ run_result' = analyzer.results
    /\ UNCHANGED <<model, analysis_results, matrix_assembler, linear_solver>>

\* what an accessor call leaves in run_result: the accessor and what it
\* returned or raised
Returned(accessor, outcome) == [accessor |-> accessor, returned |-> outcome]

\* linear_solver.check_equilibrium(F) with the load vector of the solver
CheckEquilibrium ==
    /\ linear_solver # None
    /\ run_result' = Returned("check_equilibrium",
                              check_equilibrium(linear_solver, linear_solver.F))
    /\ UNCHANGED <<model, analysis_results, matrix_assembler, linear_solver, modal_analyzer, calls>>

\* linear_solver.get_nodal_displacements([])
GetNodalDisplacements ==
    /\ linear_solver # None
    /\ run_result' = Returned("get_nodal_displacements",
                              get_nodal_displacements(linear_solver, {}))
    /\ UNCHANGED <<model, analysis_results, matrix_assembler, linear_solver, modal_analyzer, calls>>

\* the mode numbers asked for
ModeNumbers == 0..1

\* modal_analyzer.get_mode_shape(mode_number, [])
GetModeShape ==
    /\ modal_analyzer # None
    /\ \E mode_number \in ModeNumbers :
          run_result' = Returned("get_mode_shape",
                                 get_mode_shape(modal_analyzer, mode_number))
    /\ UNCHANGED <<model, analysis_results, matrix_assembler, linear_solver, modal_analyzer, calls>>

\* modal_analyzer.get_modal_participation_factors()
GetModalParticipationFactors ==
    /\ modal_analyzer # None
    /\ run_result' = Returned("get_modal_participation_factors",
                              get_modal_participation_factors(modal_analyzer))
    /\ UNCHANGED <<model, analysis_results, matrix_assembler, linear_solver, modal_analyzer, calls>>

\* the design spectrum of the calls: accelerations 44 and 8 at the periods
\* 2 pi / 8 and 2 pi / 2.  A period is held as its multiple of 2 pi, like
\* the periods of the analyzer; np.interp sees the same ratios.
SpectrumPeriods == <<Num(1, 8, 0), Num(1, 2, 0)>>
SpectrumValues == <<FromInt(44), FromInt(8)>>

\* the default damping ratio 0.05
DampingRatio == Num(5, 1, -2)

\* the combination methods asked for: the two the code knows and another
RequestedMethods == CombinationMethods \cup {"ABS"}

\* modal_analyzer.calculate_response_spectrum_analysis(spectrum_values,
\* spectrum_periods, 0.05, combination_method)
CalculateResponseSpectrum ==
    /\ modal_analyzer # None
    /\ \E combination_method \in RequestedMethods :
          run_result' = Returned("calculate_response_spectrum_analysis",
                                 calculate_response_spectrum_analysis(
                                     modal_analyzer, SpectrumValues, SpectrumPeriods,
                                     DampingRatio, combination_method))
    /\ UNCHANGED <<model, analysis_results, matrix_assembler, linear_solver, modal_analyzer, calls>>

SolverNext ==
    \/ LinearSolve
    \/ ModalSolve
    \/ CheckEquilibrium
    \/ GetNodalDisplacements
    \/ GetModeShape
    \/ GetModalParticipationFactors
    \/ CalculateResponseSpectrum

SolverSpec == SolverInit /\ [][SolverNext]_vars

(***************************************************************************)
(* The local coordinate system on its own: the basis of an element between *)
(* two points with a roll angle.  run_result holds the call and its result. *)
(***************************************************************************)
\* directions in which the axes of the basis are rational: along the global
\* axes (the vertical ones included) and along 3-4-5 triangles
ElementDirections ==
    {<<1, 0, 0>>, <<-2, 0, 0>>, <<0, 1, 0>>, <<0, -3, 0>>, <<0, 0, 2>>, <<0, 0, -1>>,
     <<3, 4, 0>>, <<4, 3, 0>>, <<-3, 4, 0>>, <<0, 3, 4>>, <<3, 0, 4>>, <<0, 4, -3>>}

\* the roll angles: the quarter turns in degrees, and pi / 2
RollAngles == RightAngles \cup {HalfPi}

GeometryInit ==
    /\ model = None
    /\ matrix_assembler = None
    /\ linear_solver = None
    /\ modal_analyzer = None
    /\ analysis_results = <<>>
    /\ \E direction \in ElementDirections, orientation_angle \in RollAngles :
          run_result = [start_point |-> Point3D(1, 2, 3),
                        end_point |-> Point3D(1 + direction[1], 2 + direction[2],
                                              3 + direction[3]),
                        orientation_angle |-> orientation_angle,
                        transformation_matrix |-> None]
    /\ calls = 0

\* GeometryUtils.calculate_local_coordinate_system(start_point, end_point,
\* orientation_angle)
LocalCoordinateSystem ==
    /\ calls < MaxCalls
    /\ calls' = calls + 1
    /\ run_result' = [run_result EXCEPT !.transformation_matrix =
                         calculate_local_coordinate_system(
                             run_result.start_point, run_result.end_point,
                             run_result.orientation_angle)]
    /\ UNCHANGED <<model, analysis_results, matrix_assembler, linear_solver, modal_analyzer>>

GeometryNext == LocalCoordinateSystem

GeometrySpec == GeometryInit /\ [][GeometryNext]_vars

(***************************************************************************)
(* Sessions: one engine kept across several runs on a model that is edited *)
(* between them through its node manager.                                  *)
(***************************************************************************)
\* bound on the number of runs in a session
MaxRuns == 2

\* the restraints add_boundary_condition derives from the support type, the
\* restrain_* arguments left at their default
SupportRestraints(support_type) ==
    CASE support_type = "fixed" -> <<TRUE, TRUE, TRUE, TRUE, TRUE, TRUE>>
      [] support_type = "pinned" -> <<TRUE, TRUE, TRUE, FALSE, FALSE, FALSE>>
      [] support_type = "roller" -> <<FALSE, FALSE, TRUE, FALSE, FALSE, FALSE>>

\* NodeManager.add_boundary_condition(node_id, support_type): the boundary
\* condition of the node is replaced; an unknown node raises ValueError
add_boundary_condition(node_id, support_type) ==
    /\ node_id \in NodeIds(model)
    /\ model' = [model EXCEPT !.boundary_conditions =
                    Stored(@, node_id, [node_id |-> node_id,
                                        restrain |-> SupportRestraints(support_type),
                                        spring |-> NoSprings])]
    /\ UNCHANGED <<matrix_assembler, linear_solver, modal_analyzer, analysis_results,
                   run_result, calls>>

\* the cantilever of scenario 1 and the same beam on a single pinned support
SessionModels ==
    {Beam(1, 1, "mm", NoRelease, FALSE, bcs,
          <<PointLoad(2, "DL", <<kN, Zero, Zero>>, NoMoment)>>) :
        bcs \in {[b \in {1} |-> Fixed(1)], [b \in {1} |-> Pinned(1)]}}

SessionInit ==
    /\ model \in SessionModels
    /\ matrix_assembler = None
    /\ linear_solver = None
    /\ modal_analyzer = None
    /\ analysis_results = <<>>
    /\ run_result = None
    /\ calls = 0

\* the support types of the edits
SupportTypes == {"fixed"}

AddBoundaryCondition ==
    \E node_id \in NodeIds(model), support_type \in SupportTypes :
        add_boundary_condition(node_id, support_type)
SessionLinearStatic ==
    /\ calls < MaxRuns
    /\ calls' = calls + 1
    /\ run_linear_static_analysis(NoName)
SessionModal ==
    /\ calls < MaxRuns
    /\ calls' = calls + 1
    /\ run_modal_analysis(DefaultModes)
SessionResponseSpectrum ==
    /\ calls < MaxRuns
    /\ calls' = calls + 1
    /\ \E combination_method \in {"CQC", "ABS"} :
          run_response_spectrum_analysis(DampingRatio, combination_method)

SessionNext ==
    \/ AddBoundaryCondition
    \/ SessionLinearStatic
    \/ SessionModal
    \/ SessionResponseSpectrum

SessionSpec == SessionInit /\ [][SessionNext]_vars

(***************************************************************************)
(* Properties.  They are stated on the engine's state: the model, the      *)
(* assembler and solver it keeps, and the result of its last run.          *)
(***************************************************************************)
\* the last run was a linear static analysis that completed
StaticCompleted ==
    /\ run_result # None
    /\ run_result.status = "completed"
    /\ run_result.analysis_type = "linear_static"

\* the combination name the completed run was requested with
RequestedName ==
    IF run_result.load_combination = "unit" THEN NoName ELSE run_result.load_combination

\* the global DOFs restrained by the boundary conditions of asm
RestrainedDofs(asm) ==
    {BaseDof(asm, asm.boundary_conditions[ni[1]].node_id) + ni[2] :
        ni \in {mj \in (DOMAIN asm.boundary_conditions) \X (0..(dof_per_node - 1)) :
                    asm.boundary_conditions[mj[1]].restrain[mj[2] + 1]}}

\* some boundary condition of asm contributes a spring
HasSpring(asm) ==
    \E n \in DOMAIN asm.boundary_conditions, i \in 0..(dof_per_node - 1) :
        SpringApplies(asm.boundary_conditions[n], i)

\* the reaction reported for global DOF d
ReportedReaction(d) == run_result.reaction_forces[d \div dof_per_node][(d % dof_per_node) + 1]

\* the global DOFs of direction k (0..5 for ux, uy, uz, rx, ry, rz)
Direction(dofs, k) == {d \in dofs : d % dof_per_node = k}

\* C1: for every converged linear static solve of a structure on rigid
\* supports, the reactions reported at the restrained DOFs balance the applied
\* loads: in each translational direction the reactions and the applied nodal
\* forces sum to zero (for the axially loaded cantilever the reaction fx at the
\* fixed node is minus the load, not 0).
C1_ReactionsBalanceLoads ==
    (StaticCompleted /\ ~HasSpring(matrix_assembler)) =>
        \A k \in 0..2 :
            Add(SumOver([d \in Direction(RestrainedDofs(matrix_assembler), k) |->
                            ReportedReaction(d)],
                        Direction(RestrainedDofs(matrix_assembler), k)),
                SumOver(linear_solver.F, Direction(DOMAIN linear_solver.F, k))) = Zero

\* the axially loaded cantilever of scenario 1: the start node fully fixed and
\* one axial point load at the end node, run with unit factors
IsAxialCantilever(m) ==
    /\ Len(m.elements) = 1
    /\ m.elements[1].releases = None
    /\ m.boundary_conditions =
          [b \in {m.elements[1].start_node_id} |-> Fixed(m.elements[1].start_node_id)]
    /\ m.loads = <<PointLoad(m.elements[1].end_node_id, "DL", <<kN, Zero, Zero>>, NoMoment)>>

\* the coefficients of the local stiffness matrix from the values as supplied
SuppliedCoefficients(K_local, material, section, L) ==
    /\ K_local[0][0] = Div(Mul(material.elastic_modulus, section.area), L)
    /\ K_local[4][4] = Mul(FromInt(4),
                           Div(Mul(material.elastic_modulus, section.moment_of_inertia_y), L))
    /\ K_local[5][5] = Mul(FromInt(4),
                           Div(Mul(material.elastic_modulus, section.moment_of_inertia_z), L))
    /\ K_local[3][3] = Div(Mul(ShearModulus(material.elastic_modulus, material.poisson_ratio),
                               section.torsional_constant), L)

\* C2: the kernel uses the material and section values exactly as supplied:
\* for every element the local entry K[0,0] is E*A/L from the supplied E and A
\* and the node-derived L, Iy, Iz and J enter unscaled, and the completed run of
\* the axially loaded cantilever reports u_x at the loaded node = F*L/(E*A).
C2_ValuesUsedAsSupplied ==
    /\ matrix_assembler # None =>
          \A n \in DOMAIN matrix_assembler.elements :
              SuppliedCoefficients(
                  ElementKLocal(matrix_assembler, matrix_assembler.elements[n]),
                  matrix_assembler.materials[matrix_assembler.elements[n].material_id],
                  matrix_assembler.sections[matrix_assembler.elements[n].section_id],
                  ElementLength(matrix_assembler, matrix_assembler.elements[n]))
    /\ (StaticCompleted /\ RequestedName = NoName /\ IsAxialCantilever(model)) =>
          run_result.nodal_displacements[
              node_to_index(matrix_assembler, model.elements[1].end_node_id)][1]
            = Div(Mul(kN, ElementLength(matrix_assembler, model.elements[1])),
                  Mul(model.materials[1].elastic_modulus, model.sections[1].area))

\* the displacement vector on ElemDofs with the given non-zero entries
Motion(entries) == [i \in ElemDofs |-> IF i \in DOMAIN entries THEN entries[i] ELSE Zero]

\* the six rigid-body motions of an element of length L along local x: three
\* translations, and the rotations about local x, y and z through the start node
RigidBodyMotions(L) ==
    {Motion([i \in {0, 6} |-> One]),
     Motion([i \in {1, 7} |-> One]),
     Motion([i \in {2, 8} |-> One]),
     Motion([i \in {3, 9} |-> One]),
     Motion([i \in {4, 8, 10} |-> IF i = 8 THEN Neg(L) ELSE One]),
     Motion([i \in {5, 7, 11} |-> IF i = 7 THEN L ELSE One])}

UnitMotions == {Motion([i \in {k} |-> One]) : k \in ElemDofs}

\* u^T K u
Quadratic(K, u) ==
    Only({SumTo([i \in ElemDofs |-> Mul(u[i], Ku[i])], 12) : Ku \in {MatVec(K, u)}})

Symmetric(K) == \A i \in DOMAIN K, j \in DOMAIN K : K[i][j] = K[j][i]

\* C3: the local stiffness matrix of every element is symmetric, has the six
\* rigid-body motions of the element in its null space, and its quadratic form
\* is nowhere negative (tried on the rigid-body and the unit motions).
C3_LocalStiffnessRigidBodyModes ==
    matrix_assembler # None =>
        \A n \in DOMAIN matrix_assembler.elements :
            \E K_local \in {ElementKLocal(matrix_assembler, matrix_assembler.elements[n])},
               L \in {ElementLength(matrix_assembler, matrix_assembler.elements[n])} :
                /\ Symmetric(K_local)
                /\ \A u \in RigidBodyMotions(L) : MatVec(K_local, u) = ZeroVec(12)
                /\ \A u \in RigidBodyMotions(L) \cup UnitMotions :
                      ~Less(Quadratic(K_local, u), Zero)

\* C4: a member end-release is applied to the local matrix before the
\* transformation: the element matrix that is assembled is T^T K_rel T, with
\* K_rel the local matrix with the released rows and columns zeroed, and only
\* rows and columns among 3, 4, 5, 9, 10, 11 are zeroed.
C4_ReleaseAppliedLocally ==
    matrix_assembler # None =>
        \A n \in DOMAIN matrix_assembler.elements :
            \E element \in {matrix_assembler.elements[n]} :
                element.releases # None =>
                    /\ ReleasedDofs(element.releases) \subseteq {3, 4, 5, 9, 10, 11}
                    /\ get_element_stiffness_matrix(matrix_assembler, element)
                         = ToGlobal(ElementT(matrix_assembler, element),
                                    apply_element_releases(
                                        ElementKLocal(matrix_assembler, element),
                                        element.releases))

\* the force reported for local DOF d of the n-th element
ReportedForce(n, d) ==
    IF d < dof_per_node THEN run_result.element_forces[n].start_node[d + 1]
    ELSE run_result.element_forces[n].end_node[d - dof_per_node + 1]

\* C5: in every completed run, the internal forces reported for an element
\* with a released moment at an end are zero for that moment at that end.
C5_ReleasedMomentReportedZero ==
    StaticCompleted =>
        \A n \in DOMAIN model.elements :
            model.elements[n].releases # None =>
                \A d \in ReleasedDofs(model.elements[n].releases) : ReportedForce(n, d) = Zero

\* the cantilever of scenario 6: the start node fully fixed, one transverse
\* point load at the end node, and a moment_z release at the element start
IsReleasedCantilever(m) ==
    /\ Len(m.elements) = 1
    /\ m.elements[1].releases # None
    /\ "moment_z" \in m.elements[1].releases.start
    /\ m.boundary_conditions =
          [b \in {m.elements[1].start_node_id} |-> Fixed(m.elements[1].start_node_id)]
    /\ m.loads = <<PointLoad(m.elements[1].end_node_id, "DL", <<Zero, kN, Zero>>, NoMoment)>>

\* the converged solvers of model m under unit factors
ConvergedSolvers(m) ==
    UNION {{s \in solve(LinearSolver(assemble_global_stiffness_matrix(asm),
                                     assemble_load_vector(asm, m.loads, None))) : s.solved} :
           asm \in {prepare_analysis(m)}}

\* the tip deflection u_y of the scenario's cantilever with its releases removed
UnreleasedTipDeflection(m) ==
    Only({s.displacements[BaseDof(prepare_analysis(m), m.elements[1].end_node_id) + 1] :
          s \in ConvergedSolvers([m EXCEPT !.elements[1].releases = None])})

\* C6: for the cantilever with a transverse tip load, a moment_z release at
\* the element start makes the tip deflection of the completed run 4 times the
\* tip deflection without the release.
C6_ReleaseQuadruplesTipDeflection ==
    (StaticCompleted /\ RequestedName = NoName /\ IsReleasedCantilever(model)) =>
        run_result.nodal_displacements[
            node_to_index(matrix_assembler, model.elements[1].end_node_id)][2]
          = Mul(FromInt(4), UnreleasedTipDeflection(model))

\* C7: in the matrices handed to the modal solver, row and column d of the
\* mass matrix are zero for every restrained DOF d, as row and column d of
\* the stiffness matrix are zero off the diagonal.
C7_MassRestrainedLikeStiffness ==
    modal_analyzer # None =>
        \A d \in RestrainedDofs(matrix_assembler), j \in DOMAIN modal_analyzer.M :
            /\ modal_analyzer.M[d][j] = Zero
            /\ modal_analyzer.M[j][d] = Zero
            /\ j # d => (modal_analyzer.K[d][j] = Zero /\ modal_analyzer.K[j][d] = Zero)

\* the spring constant the boundary conditions of asm give for global DOF d
\* when that DOF is not restrained, else zero
SpringAt(asm, d) ==
    SumOver([n \in DOMAIN asm.boundary_conditions |->
                IF /\ BaseDof(asm, asm.boundary_conditions[n].node_id) = d - (d % dof_per_node)
                   /\ Truthy(asm.boundary_conditions[n].spring[(d % dof_per_node) + 1])
                THEN asm.boundary_conditions[n].spring[(d % dof_per_node) + 1]
                ELSE Zero],
            DOMAIN asm.boundary_conditions)

\* C8: after assemble_global_stiffness_matrix, every restrained DOF d has
\* K[d,d] = 1e12 and K[d,j] = K[j,d] = 0 for j # d, whatever the order of the
\* boundary conditions and whatever springs and releases are present; a spring
\* constant is added to the diagonal of the non-restrained DOFs only.
C8_RestrainedDofsPenalised ==
    (matrix_assembler # None /\ matrix_assembler.global_stiffness # None) =>
        \E K \in {matrix_assembler.global_stiffness},
           R \in {RestrainedDofs(matrix_assembler)},
           free \in {AssembleElements(matrix_assembler)} :
            /\ \A d \in R : K[d][d] = Penalty
            /\ \A d \in R : \A j \in DOMAIN K \ {d} : K[d][j] = Zero /\ K[j][d] = Zero
            /\ \A d \in DOMAIN K \ R :
                  K[d][d] = Add(free[d][d], SpringAt(matrix_assembler, d))

\* the stiffness matrix was assembled for two boundary conditions listed
\* against the node order, with a spring constant given on a restrained DOF,
\* a spring added on a free DOF, and a released element
C8_SprungSupportsAssembled ==
    /\ matrix_assembler # None
    /\ matrix_assembler.global_stiffness # None
    /\ Len(matrix_assembler.boundary_conditions) = 2
    /\ matrix_assembler.boundary_conditions[1].node_id
          > matrix_assembler.boundary_conditions[2].node_id
    /\ HasSpring(matrix_assembler)
    /\ \E n \in DOMAIN matrix_assembler.boundary_conditions, i \in 1..dof_per_node :
          /\ matrix_assembler.boundary_conditions[n].restrain[i]
          /\ Truthy(matrix_assembler.boundary_conditions[n].spring[i])
    /\ \E n \in DOMAIN matrix_assembler.elements :
          matrix_assembler.elements[n].releases # None
    /\ matrix_assembler.global_stiffness[0][0] = Penalty

\* the loads whose load case has a factor in the mapping items
Factored(loads, items) == SelectSeq(loads, LAMBDA load : load.load_case \in DOMAIN items)

\* the factor mapping of the combination a run names: empty when no
\* combination has the name
ActiveItems(m, load_combination_name) ==
    IF Named(m, load_combination_name) = {} THEN [c \in {} |-> Zero]
    ELSE m.load_combinations[Min(Named(m, load_combination_name))].factors.items

\* C9: when a run names a load combination, the loads whose load case has no
\* factor in it contribute nothing to F: F is the load vector of the factored
\* loads alone, also when the mapping is empty or no combination has the name.
C9_AbsentFactorIsZero ==
    (StaticCompleted /\ RequestedName # NoName) =>
        matrix_assembler.global_load
          = assemble_load_vector(matrix_assembler,
                                 Factored(model.loads, ActiveItems(model, RequestedName)),
                                 LoadFactors(model, RequestedName))

\* the point loads of the sequence loads on the node with index node_index
PointLoadsOn(asm, loads, node_index) ==
    {n \in DOMAIN loads : /\ loads[n].node_id \in DOMAIN asm.nodes
                          /\ node_to_index(asm, loads[n].node_id) = node_index}

\* fx, fy, fz, mx, my, mz of a point load
Components(load) == load.force \o load.moment

\* the sum of c * component over the point loads on the node of global DOF d
PointLoadTotal(asm, loads, load_combination_factors, d) ==
    SumOver([n \in PointLoadsOn(asm, loads, d \div dof_per_node) |->
                Mul(FactorFor(load_combination_factors, loads[n].load_case),
                    Components(loads[n])[(d % dof_per_node) + 1])],
            PointLoadsOn(asm, loads, d \div dof_per_node))

\* C10: when all loads are point loads on existing nodes (of any id, 0
\* included), F holds at DOF 6*index(n)+k the sum over the loads on node n of
\* factor * component k, and nothing else.
C10_PointLoadsScattered ==
    (StaticCompleted /\ \A n \in DOMAIN model.loads : model.loads[n].element_id = NoId) =>
        \A d \in DOMAIN matrix_assembler.global_load :
            matrix_assembler.global_load[d]
              = PointLoadTotal(matrix_assembler, model.loads,
                               LoadFactors(model, RequestedName), d)

\* the position of id in the ascending order of the set ids
Rank(ids, id) == Cardinality({j \in ids : j < id})

\* the length of an element of a frame, whose elements run along an axis
AxialLength(m, element) ==
    Only({Add(Add(NAbs(Sub(b[1], a[1])), NAbs(Sub(b[2], a[2]))), NAbs(Sub(b[3], a[3]))) :
          a \in {NodeCoordinates(m, element.start_node_id)},
          b \in {NodeCoordinates(m, element.end_node_id)}})

\* the element a distributed load acts on
LoadedElement(m, load) ==
    m.elements[CHOOSE n \in DOMAIN m.elements : m.elements[n].id = load.element_id]

\* the length l a distributed load covers: from its start distance (the
\* element start when absent) to its end distance (the element end when absent)
CoveredLength(m, load) ==
    Sub(IF load.end_distance = None THEN AxialLength(m, LoadedElement(m, load))
        ELSE load.end_distance,
        IF load.start_distance = None THEN Zero ELSE load.start_distance)

\* w*l/2 in each translation, no mx, and the fixed-end moments w*l^2/12 with
\* the sign s (+1 at the start node, -1 at the end node) on my and -s on mz
UniformEquivalent(w, l, s) ==
    <<Div(Mul(w[1], l), FromInt(2)), Div(Mul(w[2], l), FromInt(2)),
      Div(Mul(w[3], l), FromInt(2)), Zero,
      Mul(FromInt(s), Div(Mul(w[3], Mul(l, l)), FromInt(12))),
      Mul(FromInt(-s), Div(Mul(w[2], Mul(l, l)), FromInt(12)))>>

\* the load vector entry d expected for the single distributed load of m
ExpectedUniform(m, load, d) ==
    Only({IF d \div dof_per_node = Rank(NodeIds(m), element.start_node_id)
          THEN UniformEquivalent(load.force, l, 1)[(d % dof_per_node) + 1]
          ELSE IF d \div dof_per_node = Rank(NodeIds(m), element.end_node_id)
          THEN UniformEquivalent(load.force, l, -1)[(d % dof_per_node) + 1]
          ELSE Zero :
          element \in {LoadedElement(m, load)}, l \in {CoveredLength(m, load)}})

\* the load vector of a frame under one distributed load was assembled with
\* unit factors
UniformLoadAssembled ==
    /\ matrix_assembler # None
    /\ matrix_assembler.global_load # None
    /\ run_result # None
    /\ run_result.load_combination = NoName
    /\ Len(model.loads) = 1
    /\ model.loads[1].element_id # NoId

\* C11: a uniformly distributed element load (wx, wy, wz) over length l puts
\* half of w*l on each end node in every global translation, no mx, and the
\* fixed-end moments mz = -wy*l^2/12 and my = +wz*l^2/12 at the start node,
\* mz = +wy*l^2/12 and my = -wz*l^2/12 at the end node, in global components
\* whatever the direction of the element
C11_UniformLoadEquivalents ==
    UniformLoadAssembled =>
        \A d \in DOMAIN matrix_assembler.global_load :
            matrix_assembler.global_load[d] = ExpectedUniform(model, model.loads[1], d)

\* a load with all three components over part of the upright element
C11_UprightElementLoaded ==
    /\ UniformLoadAssembled
    /\ model.loads[1].element_id = 2
    /\ model.loads[1].force = <<Num(2, 1, 2), Num(3, 1, 2), Num(-6, 1, 2)>>
    /\ model.loads[1].start_distance = Num(5, 1, -1)
    /\ NodeCoordinates(model, 2) = Point3D(1, 0, 1)
    /\ matrix_assembler.global_load[Rank(NodeIds(model), 2) * dof_per_node + 4]
          = Num(125, 1, -1)

\* the global DOF of local DOF i of an element: the six DOFs of its start
\* node, then the six of its end node
OwnedDof(asm, element, i) ==
    Rank(DOMAIN asm.nodes,
         IF i < dof_per_node THEN element.start_node_id ELSE element.end_node_id)
        * dof_per_node + (i % dof_per_node)

\* the DOF vectors of all elements
OwnedDofs(asm) ==
    Eager([n \in DOMAIN asm.elements |->
            [i \in ElemDofs |-> OwnedDof(asm, asm.elements[n], i)]])

\* the sum over all elements of the entries of their matrices Ke that fall
\* on the global entry [p, q]
Accumulated(asm, Ke, owned, p, q) ==
    SumOver([n \in DOMAIN asm.elements |->
                Only({SumOver([ij \in here |-> Ke[n][ij[1]][ij[2]]], here) :
                      here \in {{i \in ElemDofs : owned[n][i] = p}
                                    \X {j \in ElemDofs : owned[n][j] = q}}})],
            DOMAIN asm.elements)

\* the nodes owning p and q are the ends (or one end) of some element
Joined(asm, p, q) ==
    \E n \in DOMAIN asm.elements :
        {p \div dof_per_node, q \div dof_per_node}
            \subseteq {Rank(DOMAIN asm.nodes, asm.elements[n].start_node_id),
                       Rank(DOMAIN asm.nodes, asm.elements[n].end_node_id)}

\* G is the accumulation of the element matrices Ke at every entry outside
\* the rows and columns in skip, and is zero between nodes no element joins
IsAccumulation(asm, G, Ke, skip) ==
    \E owned \in {OwnedDofs(asm)} :
        \A p \in DOMAIN G \ skip, q \in DOMAIN G \ skip :
            /\ G[p][q] = Accumulated(asm, Ke, owned, p, q)
            /\ G[p][q] # Zero => Joined(asm, p, q)

\* the DOFs a boundary condition of asm restrains or springs
SupportedDofs(asm) ==
    RestrainedDofs(asm) \cup {d \in 0..(asm.total_dof - 1) : SpringAt(asm, d) # Zero}

\* C12: the assembled global K (away from the rows and columns the boundary
\* conditions rewrite) and the global M are the sum over all elements of the
\* element matrix scattered to the element's 12 global DOFs, start-node DOFs
\* 0..5 then end-node DOFs 0..5; an entry is non-zero only between DOFs of
\* nodes that an element joins, and elements sharing a node add up
C12_ElementsAccumulated ==
    matrix_assembler # None =>
        /\ matrix_assembler.global_stiffness # None =>
              IsAccumulation(matrix_assembler, matrix_assembler.global_stiffness,
                             Eager([n \in DOMAIN matrix_assembler.elements |->
                                get_element_stiffness_matrix(
                                    matrix_assembler, matrix_assembler.elements[n])]),
                             SupportedDofs(matrix_assembler))
        /\ matrix_assembler.global_mass # None =>
              IsAccumulation(matrix_assembler, matrix_assembler.global_mass,
                             Eager([n \in DOMAIN matrix_assembler.elements |->
                                get_element_mass_matrix(
                                    matrix_assembler, matrix_assembler.elements[n])]),
                             {})

\* the stiffness matrix of an unsupported frame with unsorted node ids was
\* assembled: at the shared middle node both elements contribute to the ux
\* diagonal, and the two outer nodes are not coupled
C12_SharedNodeAccumulates ==
    /\ matrix_assembler # None
    /\ matrix_assembler.global_stiffness # None
    /\ matrix_assembler.boundary_conditions = <<>>
    /\ NodeIds(model) = {9, 5, 2}
    /\ NodeCoordinates(model, 2) = Point3D(1, 2, 0)
    /\ \E K \in {matrix_assembler.global_stiffness},
          K1 \in {get_element_stiffness_matrix(matrix_assembler, model.elements[1])},
          K2 \in {get_element_stiffness_matrix(matrix_assembler, model.elements[2])} :
            /\ K1[6][6] # Zero
            /\ K2[0][0] # Zero
            /\ K[6][6] = Add(K1[6][6], K2[0][0])
            /\ K[0][12] = Zero
            /\ K[12][12] # Zero

\* the global DOFs of the node with the given id
DofsOf(asm, node_id) ==
    {node_to_index(asm, node_id) * dof_per_node + k : k \in 0..(dof_per_node - 1)}

\* C13: for nodes with distinct ids the DOF map is a bijection onto
\* [0, 6*|nodes|): the node at position i of the ascending-id order owns
\* exactly the DOFs 6i..6i+5, no two nodes share a DOF, total_dof is
\* 6*|nodes|, and the DOF indices of every element are those of its two nodes
C13_DofMapBijective ==
    matrix_assembler # None =>
        \E asm \in {matrix_assembler}, ids \in {DOMAIN matrix_assembler.nodes} :
            /\ asm.total_dof = 6 * Cardinality(ids)
            /\ \A a \in ids, b \in ids :
                  a < b => node_to_index(asm, a) < node_to_index(asm, b)
            /\ \A a \in ids :
                  DofsOf(asm, a) = {d \in 0..(asm.total_dof - 1) :
                                        d \div 6 = Cardinality({b \in ids : b < a})}
            /\ \A a \in ids, b \in ids : a # b => DofsOf(asm, a) \cap DofsOf(asm, b) = {}
            /\ UNION {DofsOf(asm, a) : a \in ids} = 0..(asm.total_dof - 1)
            /\ \A n \in DOMAIN asm.elements :
                  \E dofs \in {get_element_dof_indices(asm, asm.elements[n])} :
                      /\ {dofs[i] : i \in 0..5} = DofsOf(asm, asm.elements[n].start_node_id)
                      /\ {dofs[i] : i \in 6..11} = DofsOf(asm, asm.elements[n].end_node_id)
                      /\ \A i \in ElemDofs : dofs[i] % 6 = i % 6
            /\ asm.global_stiffness # None => Dim(asm.global_stiffness) = asm.total_dof
            /\ asm.global_mass # None => Dim(asm.global_mass) = asm.total_dof
            /\ asm.global_load # None => Dim(asm.global_load) = asm.total_dof

\* the matrices of a frame whose nodes are listed as 0, 7, 4 were assembled:
\* node 7, listed second, owns the last six DOFs
C13_GappedIdsAssembled ==
    /\ matrix_assembler # None
    /\ matrix_assembler.global_stiffness # None
    /\ model.nodes[2].id = 7
    /\ DOMAIN matrix_assembler.nodes = {0, 4, 7}
    /\ DofsOf(matrix_assembler, 7) = 12..17
    /\ DofsOf(matrix_assembler, 4) = 6..11

\* C14: for every model the assembled global K (after releases, the penalty
\* of the boundary conditions and the springs) and the assembled global M are
\* symmetric
C14_AssembledSymmetric ==
    matrix_assembler # None =>
        /\ matrix_assembler.global_stiffness # None =>
              Symmetric(matrix_assembler.global_stiffness)
        /\ matrix_assembler.global_mass # None =>
              Symmetric(matrix_assembler.global_mass)

\* K and M were assembled for a released beam on a fixed support and a
\* sprung roller, with entries off the diagonal
C14_ReleasedSprungAssembled ==
    /\ matrix_assembler # None
    /\ matrix_assembler.global_stiffness # None
    /\ matrix_assembler.global_mass # None
    /\ model.elements[1].releases = StartMz
    /\ HasSpring(matrix_assembler)
    /\ RestrainedDofs(matrix_assembler) # {}
    /\ \E i \in DOMAIN matrix_assembler.global_stiffness,
          j \in DOMAIN matrix_assembler.global_stiffness :
            /\ i # j
            /\ matrix_assembler.global_stiffness[i][j] # Zero
            /\ matrix_assembler.global_mass[i][j] # Zero

\* some diagonal entry of K is below the tolerance 1e-12 in absolute value
ZeroDiagonal(K) == \E d \in DOMAIN K : Less(NAbs(K[d][d]), Num(1, 1, -12))

\* C15: LinearSolver.solve reports one of the statuses converged, singular
\* and ill-conditioned: singular when some |K[d,d]| < 1e-12, ill-conditioned
\* when the matrix fails the condition test instead, so that the two causes
\* of failure can be told apart in the result
C15_FailureCausesDistinguished ==
    (linear_solver # None /\ linear_solver.results # None) =>
        /\ linear_solver.results.status \in {"converged", "singular", "ill-conditioned"}
        /\ ZeroDiagonal(linear_solver.K) => linear_solver.results.status = "singular"
        /\ (linear_solver.results.status # "converged" /\ ~ZeroDiagonal(linear_solver.K))
              => linear_solver.results.status = "ill-conditioned"

\* the statuses a result record can carry
Statuses == {"converged", "failed"}

\* the last call was a solve: run_result is the result record it returned
SolveReturned == calls > 0 /\ "status" \in DOMAIN run_result

\* C16: LinearSolver.solve and ModalAnalyzer.solve always hand back a result
\* record with a status, whatever the input (a load vector of the wrong
\* length and a mode count eigsh rejects included).  Every linear result
\* that is not converged carries zero displacement and reaction vectors of
\* the length of F.  For a K on which the conditioning check fails spsolve is
\* not reached: the solver keeps displacements None and solved False.
C16_SolversReturnStatus ==
    /\ linear_solver # None /\ SolveReturned =>
          /\ run_result = linear_solver.results
          /\ run_result.status \in Statuses
          /\ run_result.status # "converged" =>
                /\ run_result.displacements = ZeroVec(Dim(linear_solver.F))
                /\ run_result.reactions = ZeroVec(Dim(linear_solver.F))
          /\ check_matrix_conditioning(linear_solver.K, Inverse(linear_solver.K)) = {FALSE} =>
                /\ run_result.error = "Matrix is singular or poorly conditioned"
                /\ linear_solver.displacements = None
                /\ ~linear_solver.solved
    /\ modal_analyzer # None /\ SolveReturned =>
          /\ run_result = modal_analyzer.results
          /\ run_result.status \in Statuses

\* a solve whose spsolve raised on a load vector longer than K
C16_SpsolveRaisedOnLongLoad ==
    /\ linear_solver # None
    /\ SolveReturned
    /\ Dim(linear_solver.F) > Dim(linear_solver.K)
    /\ run_result.status = "failed"
    /\ run_result.error = "matrix - rhs dimension mismatch"

\* a <= b on array entries; a comparison with nan is false
FLeq(a, b) == IsFinite(a) /\ IsFinite(b) /\ Leq(a, b)

\* the modes of a converged result are ordered by frequency as far as the
\* frequencies are numbers
FrequenciesAscending(result) ==
    \A i \in DOMAIN result.frequencies, j \in DOMAIN result.frequencies :
        (i < j /\ IsFinite(result.frequencies[i]) /\ IsFinite(result.frequencies[j])) =>
            FLeq(result.frequencies[i], result.frequencies[j])

\* C17: every converged modal solve returns its modes in ascending order of
\* natural frequency, also when eigsh returned a negative eigenvalue.
C17_ModesAscendInFrequency ==
    (modal_analyzer # None /\ SolveReturned /\ run_result.status = "converged") =>
        FrequenciesAscending(run_result)

Negated(mode) == [i \in DOMAIN mode |-> Neg(mode[i])]

\* the eigenvectors eigsh can return to the analyzer
CandidateModes(analyzer) ==
    {pair[2] : pair \in {p \in {q \in EigenPairs : Dim(q[2]) = Dim(analyzer.K)} :
                            PositiveDefinite(analyzer.M) => IsEigenPair(analyzer.K, analyzer.M, p)}}

\* C18: the sign of a mode shape is determined.  In every converged result
\* the component of largest absolute value (the first of them when several
\* tie) is positive in every mode, and _normalize_mode_shapes takes an
\* eigenvector and its negation to the same mode shape.
C18_ModeSignDetermined ==
    (modal_analyzer # None /\ SolveReturned /\ run_result.status = "converged") =>
        /\ \A i \in DOMAIN run_result.eigenvectors :
              Less(Zero, run_result.eigenvectors[i][ArgMaxAbs(run_result.eigenvectors[i])])
        /\ \A mode \in CandidateModes(modal_analyzer) :
              NormalizedMode(modal_analyzer.M, mode) =
                  NormalizedMode(modal_analyzer.M, Negated(mode))

\* a converged result with a mode in which a negative component is as large
\* in absolute value as the largest one
C18_TiedComponentsNormalized ==
    /\ modal_analyzer # None
    /\ SolveReturned
    /\ run_result.status = "converged"
    /\ \E i \in DOMAIN run_result.eigenvectors :
          \E j \in DOMAIN run_result.eigenvectors[i] :
              /\ Less(run_result.eigenvectors[i][j], Zero)
              /\ NAbs(run_result.eigenvectors[i][j]) =
                    run_result.eigenvectors[i][ArgMaxAbs(run_result.eigenvectors[i])]

\* C19: every mode shape of a converged modal result is mass-normalized,
\* phi^T M phi = 1, whatever K and M are, also for a mode whose modal mass
\* as returned by eigsh is zero or negative.
C19_ModesMassNormalized ==
    (modal_analyzer # None /\ SolveReturned /\ run_result.status = "converged") =>
        \A i \in DOMAIN run_result.eigenvectors :
            ModalMass(modal_analyzer.M, run_result.eigenvectors[i]) = One

AllFinite(array) == \A i \in DOMAIN array : IsFinite(array[i])

\* C20: a modal solve whose eigensolver raised, returned a non-finite
\* eigenvalue, or returned an eigenvalue with a non-finite frequency or
\* period (a zero eigenvalue has an infinite period) is reported as failed,
\* with an error message and empty arrays; a converged result holds finite
\* eigenvalues, frequencies and periods only.
C20_NonFiniteModesFail ==
    (modal_analyzer # None /\ SolveReturned) =>
        /\ run_result.status = "converged" =>
              /\ AllFinite(run_result.eigenvalues)
              /\ AllFinite(run_result.frequencies)
              /\ AllFinite(run_result.periods)
        /\ run_result.status = "failed" =>
              /\ run_result.eigenvalues = <<>>
              /\ run_result.eigenvectors = <<>>
              /\ run_result.num_modes = 0

\* the rows of a basis as vectors
Row(basis, i) == <<basis[i][0], basis[i][1], basis[i][2]>>
Opposite(v) == <<Neg(v[1]), Neg(v[2]), Neg(v[3])>>

\* rolled is base turned a quarter turn about its first row, either way round
QuarterTurn(base, rolled) ==
    /\ Row(rolled, 0) = Row(base, 0)
    /\ \/ Row(rolled, 1) = Row(base, 2) /\ Row(rolled, 2) = Opposite(Row(base, 1))
       \/ Row(rolled, 1) = Opposite(Row(base, 2)) /\ Row(rolled, 2) = Row(base, 1)

\* C24: the roll angle is in radians: for a roll of pi / 2 the basis keeps
\* local x and has local y and local z a quarter turn from where they are
\* for a roll of 0.
C24_RollInRadians ==
    (calls > 0 /\ run_result.orientation_angle = HalfPi) =>
        QuarterTurn(calculate_local_coordinate_system(
                        run_result.start_point, run_result.end_point, Zero),
                    run_result.transformation_matrix)

\* C25: the state of a ModalAnalyzer stays consistent over every sequence
\* of solve calls.  Whenever solved is True the stored result is converged,
\* num_modes is the number of stored eigenvalues, frequencies and mode-shape
\* columns, and get_mode_shape(k) reads an existing column for every
\* k < num_modes.
C25_AnalyzerStateConsistent ==
    (modal_analyzer # None /\ modal_analyzer.solved) =>
        /\ modal_analyzer.results.status = "converged"
        /\ modal_analyzer.num_modes = Dim(modal_analyzer.eigenvalues)
        /\ modal_analyzer.num_modes = Dim(modal_analyzer.frequencies)
        /\ modal_analyzer.num_modes = Dim(modal_analyzer.eigenvectors)
        /\ \A k \in ModeRange(modal_analyzer) :
              "raised" \notin DOMAIN get_mode_shape(modal_analyzer, k)

\* the accessor outcome "raise ValueError" of the last call
RaisedValueError ==
    /\ "accessor" \in DOMAIN run_result
    /\ "raised" \in DOMAIN run_result.returned
    /\ run_result.returned.raised = "ValueError"

\* the solver or analyzer of the run: exactly one of them exists
SolverObject == IF linear_solver # None THEN linear_solver ELSE modal_analyzer

C27_SolvedByConvergedSolve ==
    [][(~SolverObject.solved /\ SolverObject'.solved) =>
          /\ run_result' = SolverObject'.results
          /\ run_result'.status = "converged"]_vars

ZeroFrequencyModes(analyzer) ==
    {i \in ModeRange(analyzer) : analyzer.frequencies[i] = Zero}
RemainingModes(analyzer) == ModeRange(analyzer) \ ZeroFrequencyModes(analyzer)

\* the combination at DOF d of the modal displacements of the remaining
\* modes only, held as its square like the combined displacements
RemainingCombination(analyzer, result, d) ==
    IF result.combination_method = "SRSS"
    THEN FSum([i \in RemainingModes(analyzer) |->
                  Mul(result.modal_displacements[i][d], result.modal_displacements[i][d])])
    ELSE FAbs(FSum([jk \in RemainingModes(analyzer) \X RemainingModes(analyzer) |->
                      FMul(Mul(result.modal_displacements[jk[1]][d],
                               result.modal_displacements[jk[2]][d]),
                           IF jk[1] = jk[2] THEN One
                           ELSE correlation_coeff(analyzer.frequencies[jk[1]],
                                                  analyzer.frequencies[jk[2]],
                                                  result.damping_ratio))]))

\* the last call was a response spectrum analysis that returned its dict
SpectrumReturned ==
    /\ "accessor" \in DOMAIN run_result
    /\ run_result.accessor = "calculate_response_spectrum_analysis"
    /\ "raised" \notin DOMAIN run_result.returned

\* C21: in a response spectrum analysis a mode with zero natural frequency
\* is skipped: under SRSS and under CQC its modal displacement is zero, no
\* division by zero enters the result, and the combined displacement at
\* every DOF is finite and is the combination of the remaining modes only.
C21_ZeroFrequencyModeSkipped ==
    (SpectrumReturned /\ ZeroFrequencyModes(modal_analyzer) # {}) =>
        /\ \A i \in ZeroFrequencyModes(modal_analyzer) :
              run_result.returned.modal_displacements[i] = ZeroVec(Dim(modal_analyzer.M))
        /\ \A d \in DOMAIN modal_analyzer.M :
              /\ IsFinite(run_result.returned.combined_displacements[d])
              /\ run_result.returned.combined_displacements[d] =
                    RemainingCombination(modal_analyzer, run_result.returned, d)

\* a model with fewer than 6 restraints in total that is valid otherwise,
\* with or without loads
UnderRestrained(m) ==
    /\ TotalRestraints(m) < 6
    /\ ValidationErrors(m) \subseteq
          {"Structure appears to be unstable (insufficient restraints)",
           "Model has no loads defined"}

\* C22: a model with fewer than 6 restraints in total is still analysed:
\* run_modal_analysis on such a model goes on to the assembly and the
\* eigen-solve and does not return 'Model preparation failed'.
C22_UnderRestrainedAnalysed ==
    [][(UnderRestrained(model) /\ RunModal) =>
          /\ modal_analyzer' # None
          /\ run_result' # FailedResult("Model preparation failed")]_vars

\* the distance below which two nodes are coincident, 1e-9 m
CoincidenceTolerance == Num(1, 1, -9)

\* the elements of m whose end nodes, of distinct ids, are coincident
CoincidentElements(m) ==
    {n \in DOMAIN m.elements :
        /\ m.elements[n].start_node_id # m.elements[n].end_node_id
        /\ Leq(distance_to(NodeCoordinates(m, m.elements[n].start_node_id),
                           NodeCoordinates(m, m.elements[n].end_node_id)),
               CoincidenceTolerance)}

\* C23: an element whose end nodes are distinct ids but coincident in space
\* is detected before any matrix is assembled and aborts the analysis call:
\* the run is reported as failed and the engine holds no assembled
\* stiffness or mass matrix, no solver and no analyzer.
C23_CoincidentNodesRejected ==
    (calls > 0 /\ CoincidentElements(model) # {}) =>
        /\ run_result.status = "failed"
        /\ matrix_assembler # None =>
              /\ matrix_assembler.global_stiffness = None
              /\ matrix_assembler.global_mass = None
        /\ linear_solver = None
        /\ modal_analyzer = None

\* the release type of the rotation with index r in the six DOFs of a node
RotationRelease(r) ==
    CASE r = 3 -> "moment_x" [] r = 4 -> "moment_y" [] r = 5 -> "moment_z"

\* element is attached to node_id and flags the release of rotation r at
\* that end
ReleasedAt(element, node_id, r) ==
    /\ element.releases # None
    /\ \/ /\ element.start_node_id = node_id
          /\ RotationRelease(r) \in element.releases.start
       \/ /\ element.end_node_id = node_id
          /\ RotationRelease(r) \in element.releases.end

\* rotation r of node_id is neither restrained nor sprung
FreeUnsprung(m, node_id, r) ==
    node_id \in DOMAIN m.boundary_conditions =>
        /\ ~m.boundary_conditions[node_id].restrain[r + 1]
        /\ ~Truthy(m.boundary_conditions[node_id].spring[r + 1])

\* the rotations <<node id, r>> of m that every attached element releases
\* and no support holds
ReleasedRotations(m) ==
    {nr \in NodeIds(m) \X {3, 4, 5} :
        /\ FreeUnsprung(m, nr[1], nr[2])
        /\ \A n \in DOMAIN m.elements :
              (m.elements[n].start_node_id = nr[1] \/ m.elements[n].end_node_id = nr[1])
                  => ReleasedAt(m.elements[n], nr[1], nr[2])}

\* C28: when a rotational DOF of a node is neither restrained nor sprung
\* and every element attached to the node has the matching release, the
\* assembled K has a zero diagonal entry at that DOF and LinearSolver.solve
\* returns 'failed' without calling the sparse solver: no displacements are
\* stored and solved stays False.
C28_ReleasedRotationFails ==
    (linear_solver # None /\ ReleasedRotations(model) # {}) =>
        /\ \A nr \in ReleasedRotations(model) :
              linear_solver.K[Rank(NodeIds(model), nr[1]) * dof_per_node + nr[2]]
                             [Rank(NodeIds(model), nr[1]) * dof_per_node + nr[2]] = Zero
        /\ linear_solver.results.status = "failed"
        /\ linear_solver.results.error = "Matrix is singular or poorly conditioned"
        /\ linear_solver.displacements = None
        /\ ~linear_solver.solved

\* a braced beam on a fixed support was run: both rotations of its free end
\* are released
C28_BraceOnFixedSupportRun ==
    /\ linear_solver # None
    /\ model.elements[1].releases = Brace
    /\ \E b \in DOMAIN model.boundary_conditions :
          /\ DOMAIN model.boundary_conditions = {b}
          /\ model.boundary_conditions[b] = Fixed(b)
          /\ {nr \in ReleasedRotations(model) : nr[1] # b} =
                {<<model.elements[1].end_node_id, 4>>, <<model.elements[1].end_node_id, 5>>}

\* the last call was run_all_load_combinations and ran the combinations
AllCombinationsRun ==
    /\ calls > 0
    /\ "combinations" \in DOMAIN run_result

\* C29: run_all_load_combinations returns overall status 'completed' only
\* if the linear static analysis of every load combination returned status
\* 'completed'.
C29_CompletedOnlyIfAllCompleted ==
    (AllCombinationsRun /\ run_result.status = "completed") =>
        \A name \in DOMAIN run_result.combinations :
            run_result.combinations[name].status = "completed"

\* the modes of the engine's current modal analyzer have converged
ModesConverged(analyzer) ==
    /\ analyzer # None
    /\ analyzer.solved
    /\ analyzer.results.status = "converged"

\* C30: in every session of run_linear_static_analysis, run_modal_analysis
\* and run_response_spectrum_analysis calls and model edits, a call of
\* run_response_spectrum_analysis returns status "completed" only if the
\* modal solve of the engine's current modal analyzer has converged, and it
\* then stores what it returns under "response_spectrum"; a call that does
\* not complete, as every call on a failed modal analysis or on a model
\* whose modes cannot be computed, stores no response_spectrum result.
C30_SpectrumNeedsConvergedModes ==
    [][SessionResponseSpectrum =>
          /\ run_result'.status = "completed" =>
                /\ ModesConverged(modal_analyzer')
                /\ StoredResult(analysis_results', "response_spectrum") = run_result'
          /\ run_result'.status # "completed" =>
                StoredResult(analysis_results', "response_spectrum") =
                    StoredResult(analysis_results, "response_spectrum")
          /\ ~ModesConverged(modal_analyzer') => run_result'.status # "completed"]_vars

\* a response spectrum run on the analyzer a failed modal run left behind
C30_SpectrumAfterFailedModes ==
    /\ calls = 2
    /\ modal_analyzer # None
    /\ ~modal_analyzer.solved
    /\ run_result = FailedResult("Modal analysis not solved yet")
    /\ StoredResult(analysis_results, "response_spectrum") = None

\* C26: every run_linear_static_analysis and run_modal_analysis call works
\* on the model as it is at the time of the call: the assembler the run
\* leaves has the nodes, elements and boundary conditions of the model, and
\* its stiffness matrix is the one assembled from them.
C26_RunsUseCurrentModel ==
    [][((SessionLinearStatic \/ SessionModal) /\ matrix_assembler' # None) =>
          /\ matrix_assembler'.nodes = AssemblerOf(model').nodes
          /\ matrix_assembler'.elements = AssemblerOf(model').elements
          /\ matrix_assembler'.boundary_conditions = AssemblerOf(model').boundary_conditions
          /\ matrix_assembler'.global_stiffness =
                assemble_global_stiffness_matrix(AssemblerOf(model'))]_vars

====
